---- MODULE Spec2Model ----
(***************************************************************************)
(* Routing workflow, role-based access validator and read-only executor   *)
(* of the conversational SQL chatbot.                                      *)
(*                                                                         *)
(* Text (roles, SQL statements, user queries) is modelled as sequences of  *)
(* one-character strings, so that upper(), lower(), strip(), startswith(), *)
(* the substring test `in` and re.findall are computed character by        *)
(* character, as the Python code computes them.                            *)
(***************************************************************************)
EXTENDS Integers, Sequences, FiniteSets, TLC

\* ------------------------------------------------------------------------
\* Bounds
\* ------------------------------------------------------------------------
\* number of JOIN clauses a generated statement may carry
MaxJoins == 1
\* number of turns (chat requests) processed one after the other
MaxTurns == 1
\* number of direct calls made to the history store one after the other
MaxCalls == 3
\* number of threads inside add_turn for the same user at the same time
MaxThreads == 2

\* ------------------------------------------------------------------------
\* Text layer (Python str operations)
\* ------------------------------------------------------------------------
LowerAlpha == <<"a","b","c","d","e","f","g","h","i","j","k","l","m","n","o","p","q","r","s","t","u","v","w","x","y","z">>
UpperAlpha == <<"A","B","C","D","E","F","G","H","I","J","K","L","M","N","O","P","Q","R","S","T","U","V","W","X","Y","Z">>
DigitChars == {"0","1","2","3","4","5","6","7","8","9"}
\* characters matched by \s
SpaceChars == {" ", "\t", "\n"}

Range(f) == {f[i] : i \in DOMAIN f}

Min(S) == CHOOSE x \in S : \A y \in S : x <= y

LowerSet == Range(LowerAlpha)
UpperSet == Range(UpperAlpha)

\* the upper-case letter of each lower-case letter
UpperOf ==
    [a |-> "A", b |-> "B", c |-> "C", d |-> "D", e |-> "E", f |-> "F", g |-> "G", h |-> "H", i |-> "I", j |-> "J", k |-> "K", l |-> "L",
     m |-> "M", n |-> "N", o |-> "O", p |-> "P", q |-> "Q", r |-> "R", s |-> "S", t |-> "T", u |-> "U", v |-> "V", w |-> "W", x |-> "X", y |-> "Y", z |-> "Z"]

\* the lower-case letter of each upper-case letter
LowerOf ==
    [A |-> "a", B |-> "b", C |-> "c", D |-> "d", E |-> "e", F |-> "f", G |-> "g", H |-> "h", I |-> "i", J |-> "j", K |-> "k", L |-> "l",
     M |-> "m", N |-> "n", O |-> "o", P |-> "p", Q |-> "q", R |-> "r", S |-> "s", T |-> "t", U |-> "u", V |-> "v", W |-> "w", X |-> "x", Y |-> "y", Z |-> "z"]

UpperChar(c) == IF c \in LowerSet THEN UpperOf[c] ELSE c

LowerChar(c) == IF c \in UpperSet THEN LowerOf[c] ELSE c

\* str.upper()
upper(s) == [i \in 1..Len(s) |-> UpperChar(s[i])]

\* str.lower()
lower(s) == [i \in 1..Len(s) |-> LowerChar(s[i])]

\* str.strip(): drop leading and trailing whitespace
strip(s) ==
    IF \A i \in 1..Len(s) : s[i] \in SpaceChars THEN <<>>
    ELSE SubSeq(s,
                CHOOSE i \in 1..Len(s) :
                    s[i] \notin SpaceChars /\ \A k \in 1..(i - 1) : s[k] \in SpaceChars,
                CHOOSE j \in 1..Len(s) :
                    s[j] \notin SpaceChars /\ \A k \in (j + 1)..Len(s) : s[k] \in SpaceChars)

\* str.startswith(p)
startswith(s, p) == Len(s) >= Len(p) /\ \A j \in 1..Len(p) : s[j] = p[j]

\* the substring test `p in s`
contains(s, p) ==
    \E i \in 1..(Len(s) - Len(p) + 1) : \A j \in 1..Len(p) : s[i + j - 1] = p[j]

\* characters matched by \w
WordChar(c) == c \in LowerSet \/ c \in UpperSet \/ c \in DigitChars \/ c = "_"

\* last index of the run of \s characters that starts at j (j-1 when empty)
SpaceEnd(s, j) ==
    LET stop == {k \in j..Len(s) : s[k] \notin SpaceChars}
    IN  IF stop = {} THEN Len(s) ELSE Min(stop) - 1

\* last index of the run of \w characters that starts at j (j-1 when empty)
WordEnd(s, j) ==
    LET stop == {k \in j..Len(s) : ~WordChar(s[k])}
    IN  IF stop = {} THEN Len(s) ELSE Min(stop) - 1

\* the pattern  kw\s+(\w+)  matches at position i, ignoring case
MatchAt(kw, s, i) ==
    /\ i + Len(kw) - 1 <= Len(s)
    /\ \A j \in 1..Len(kw) : UpperChar(s[i + j - 1]) = kw[j]
    /\ LET se == SpaceEnd(s, i + Len(kw))
       IN  /\ se >= i + Len(kw)
           /\ WordEnd(s, se + 1) >= se + 1

\* re.findall(kw\s+(\w+), s, re.IGNORECASE), scanning from position i:
\* the captured groups of the non-overlapping matches, left to right
re_findall(kw, s, i) ==
    LET found[b \in 1..(Len(s) + 1)] ==
            LET matches == {k \in b..Len(s) : MatchAt(kw, s, k)}
            IN  IF matches = {} THEN <<>>
                ELSE LET m == Min(matches)
                         se == SpaceEnd(s, m + Len(kw))
                         we == WordEnd(s, se + 1)
                     IN  <<SubSeq(s, se + 1, we)>> \o found[we + 1]
    IN  found[i]

\* " ".join(words)
JoinWords(ws) ==
    LET joined[n \in 0..Len(ws)] ==
            IF n = 0 THEN <<>>
            ELSE IF n = 1 THEN ws[1]
            ELSE joined[n - 1] \o <<" ">> \o ws[n]
    IN  joined[Len(ws)]

\* ------------------------------------------------------------------------
\* Policy store (RBACManager.__init__)
\* ------------------------------------------------------------------------
VIEWER   == <<"v","i","e","w","e","r">>
READONLY == <<"r","e","a","d","o","n","l","y">>
ANALYST  == <<"a","n","a","l","y","s","t">>
ADMIN    == <<"a","d","m","i","n">>

\* the values of the Role enumeration
Role == {VIEWER, READONLY, ANALYST, ADMIN}

\* the values of the Permission enumeration
Permission == {"read", "write", "delete", "admin"}

T_users      == <<"u","s","e","r","s">>
T_orders     == <<"o","r","d","e","r","s">>
T_products   == <<"p","r","o","d","u","c","t","s">>
T_categories == <<"c","a","t","e","g","o","r","i","e","s">>
T_sales      == <<"s","a","l","e","s">>
T_analytics  == <<"a","n","a","l","y","t","i","c","s">>

C_id     == <<"i","d">>
C_name   == <<"n","a","m","e">>
C_email  == <<"e","m","a","i","l">>
C_amount == <<"a","m","o","u","n","t">>
C_date   == <<"d","a","t","e">>

role_permissions(r) ==
    IF r = ADMIN THEN {"read", "write", "delete", "admin"} ELSE {"read"}

table_permissions(r) ==
    CASE r = VIEWER   -> {T_users, T_orders}
      [] r = READONLY -> {T_users, T_orders, T_products, T_categories}
      [] r = ANALYST  -> {T_users, T_orders, T_products, T_categories, T_sales, T_analytics}
      [] r = ADMIN    -> {}

\* the tables for which the role has a column allow-list
RestrictedTables(r) == IF r = VIEWER THEN {T_users, T_orders} ELSE {}

\* column_restrictions[r].get(t, set())
column_restrictions(r, t) ==
    IF r = VIEWER /\ t = T_users THEN {C_id, C_name, C_email}
    ELSE IF r = VIEWER /\ t = T_orders THEN {C_id, C_amount, C_date}
    ELSE {}

\* Role(role.lower()) succeeds (does not raise ValueError)
IsRole(role) == lower(role) \in Role

has_permission(role, permission) ==
    IF IsRole(role) THEN permission \in role_permissions(lower(role)) ELSE FALSE

can_access_table(role, table_name) ==
    IF ~IsRole(role) THEN FALSE
    ELSE IF lower(role) = ADMIN THEN TRUE
    ELSE lower(table_name) \in table_permissions(lower(role))

\* can_access_column treating an unknown role as a role without restrictions
can_access_column_DefaultAllow(role, table_name, column_name) ==
    IF ~IsRole(role) THEN TRUE
    ELSE IF RestrictedTables(lower(role)) = {} THEN TRUE
    ELSE IF column_restrictions(lower(role), lower(table_name)) = {} THEN TRUE
    ELSE lower(column_name) \in column_restrictions(lower(role), lower(table_name))

can_access_column(role, table_name, column_name) ==
    IF ~IsRole(role) THEN FALSE
    ELSE IF RestrictedTables(lower(role)) = {} THEN TRUE
    ELSE IF column_restrictions(lower(role), lower(table_name)) = {} THEN TRUE
    ELSE lower(column_name) \in column_restrictions(lower(role), lower(table_name))

\* None is modelled by the record [found |-> FALSE]
get_role_info(role) ==
    IF ~IsRole(role) THEN [found |-> FALSE]
    ELSE [found |-> TRUE,
          role |-> lower(role),
          permissions |-> role_permissions(lower(role)),
          all_tables |-> (table_permissions(lower(role)) = {}),
          allowed_tables |-> table_permissions(lower(role)),
          restricted_tables |-> RestrictedTables(lower(role))]

\* ------------------------------------------------------------------------
\* Access validator (RBACManager.validate_query_access)
\* ------------------------------------------------------------------------
KW_FROM == <<"F","R","O","M">>
KW_JOIN == <<"J","O","I","N">>
KW_SELECT == <<"S","E","L","E","C","T">>

dangerous_keywords ==
  << <<"D","R","O","P">>,
     <<"D","E","L","E","T","E">>,
     <<"I","N","S","E","R","T">>,
     <<"U","P","D","A","T","E">>,
     <<"A","L","T","E","R">>,
     <<"C","R","E","A","T","E">>,
     <<"T","R","U","N","C","A","T","E">>,
     <<"E","X","E","C">>,
     <<"E","X","E","C","U","T","E">>,
     <<"U","N","I","O","N">>,
     <<"I","N","F","O","R","M","A","T","I","O","N","_","S","C","H","E","M","A">> >>

\* extraction that lists the JOIN matches before the FROM matches
extract_tables_JoinFirst(sql) ==
    LET tables == re_findall(KW_JOIN, sql, 1) \o re_findall(KW_FROM, sql, 1)
    IN  [i \in 1..Len(tables) |-> lower(tables[i])]

\* all FROM matches, then all JOIN matches, lower-cased
extract_tables_from_sql(sql) ==
    LET tables == re_findall(KW_FROM, sql, 1) \o re_findall(KW_JOIN, sql, 1)
    IN  [i \in 1..Len(tables) |-> lower(tables[i])]

\* _is_safe_query looking for the keywords in the text as written
RBAC_is_safe_query_CaseSensitive(sql, role) ==
    \E sql_upper \in {strip(upper(sql))} :
        IF role # ADMIN /\ ~startswith(sql_upper, KW_SELECT) THEN FALSE
        ELSE IF role # ADMIN
                /\ \E k \in 1..Len(dangerous_keywords) : contains(sql, dangerous_keywords[k])
             THEN FALSE
        ELSE TRUE

\* _is_safe_query testing the prefix without strip()
RBAC_is_safe_query_NoStrip(sql, role) ==
    \E sql_upper \in {upper(sql)} :
        IF role # ADMIN /\ ~startswith(sql_upper, KW_SELECT) THEN FALSE
        ELSE IF role # ADMIN
                /\ \E k \in 1..Len(dangerous_keywords) : contains(sql_upper, dangerous_keywords[k])
             THEN FALSE
        ELSE TRUE

\* RBACManager._is_safe_query(sql, role), role an enumeration value
RBAC_is_safe_query(sql, role) ==
    \E sql_upper \in {strip(upper(sql))} :
        IF role # ADMIN /\ ~startswith(sql_upper, KW_SELECT) THEN FALSE
        ELSE IF role # ADMIN
                /\ \E k \in 1..Len(dangerous_keywords) : contains(sql_upper, dangerous_keywords[k])
             THEN FALSE
        ELSE TRUE

\* index of the first extracted table the role may not access, 0 when none
FirstDeniedTable(role, tables) ==
    LET bad == {i \in 1..Len(tables) : ~can_access_table(role, tables[i])}
    IN  IF bad = {} THEN 0 ELSE Min(bad)

\* the pair (is_allowed, reason); the reason is kept as its kind and the
\* table and role it is formatted with
validate_query_access(role, sql_query) ==
    IF ~IsRole(role)
    THEN [allowed |-> FALSE, reason |-> "Invalid role", table |-> <<>>, role |-> role]
    ELSE LET tables == extract_tables_from_sql(sql_query)
             d == FirstDeniedTable(role, tables)
         IN  IF d # 0
             THEN [allowed |-> FALSE, reason |-> "Access denied to table",
                   table |-> tables[d], role |-> role]
             ELSE IF ~RBAC_is_safe_query(sql_query, lower(role))
             THEN [allowed |-> FALSE, reason |-> "Query contains unauthorized operations",
                   table |-> <<>>, role |-> role]
             ELSE [allowed |-> TRUE, reason |-> "Access granted", table |-> <<>>, role |-> role]

\* ------------------------------------------------------------------------
\* Result executor (DatabaseManager)
\* ------------------------------------------------------------------------
\* DatabaseManager.is_authorized: role_permissions.get(role, ["SELECT"])
is_authorized(role, operation) ==
    IF role = ADMIN THEN operation \in {"SELECT", "INSERT", "UPDATE", "DELETE"}
    ELSE operation = "SELECT"

\* _is_safe_query without the keyword scan
DB_is_safe_query_SelectOnly(sql) ==
    \E sql_upper \in {strip(upper(sql))} :
        startswith(sql_upper, KW_SELECT)

\* DatabaseManager._is_safe_query(sql)
DB_is_safe_query(sql) ==
    \E sql_upper \in {strip(upper(sql))} :
        IF ~startswith(sql_upper, KW_SELECT) THEN FALSE
        ELSE IF \E k \in 1..Len(dangerous_keywords) : contains(sql_upper, dangerous_keywords[k])
             THEN FALSE
        ELSE TRUE

\* the statement reaches connection.execute
PassedToEngine(sql, role) == is_authorized(role, "SELECT") /\ DB_is_safe_query(sql)

\* ------------------------------------------------------------------------
\* Inputs: role strings and generated statements
\* ------------------------------------------------------------------------
\* role strings a caller may send: the four roles, two spellings in other
\* case, one unknown role and the empty string
RoleInputs ==
    {VIEWER, READONLY, ANALYST, ADMIN,
     <<"A","d","m","i","n">>, <<"V","I","E","W","E","R">>,
     <<"g","u","e","s","t">>, <<>>}

T_secrets  == <<"s","e","c","r","e","t","s">>
C_password == <<"p","a","s","s","w","o","r","d">>
C_created_at == <<"c","r","e","a","t","e","d","_","a","t">>
KW_DELETE == <<"D","E","L","E","T","E">>

\* what follows FROM: a bare table name, or a quoted one (no \w after FROM)
FromTargets ==
    {T_users, <<"P","r","o","d","u","c","t","s">>, T_secrets,
     <<"\"","s","e","c","r","e","t","s","\"">>}

JoinTargets == {T_orders, T_secrets}

Columns == {<<"*">>, C_name, C_password, C_created_at}

\* the sequences over S of length at most n
SeqsUpTo(S, n) == UNION {[1..k -> S] : k \in 0..n}

\* a statement text as a generator may produce it.  lc: the SQL keywords are
\* written in lower case and the text starts with a blank.  from = <<>>: no
\* FROM clause.  tail = <<>>: nothing after the last clause.
Statements ==
    [head : {KW_SELECT, KW_DELETE},
     lc   : BOOLEAN,
     col  : Columns,
     from : {<<>>} \cup FromTargets,
     joins: SeqsUpTo(JoinTargets, MaxJoins),
     tail : {<<>>} \cup Range(dangerous_keywords)]

\* the words of the JOIN clauses
JoinClauses(joins, kw) ==
    LET clauses[n \in 0..Len(joins)] ==
            IF n = 0 THEN <<>> ELSE clauses[n - 1] \o <<kw, joins[n]>>
    IN  clauses[Len(joins)]

\* the statement's text
Render(stmt) ==
    LET kw(w) == IF stmt.lc THEN lower(w) ELSE w
        words == <<kw(stmt.head), stmt.col>>
                 \o (IF stmt.from = <<>> THEN <<>> ELSE <<kw(KW_FROM), stmt.from>>)
                 \o JoinClauses(stmt.joins, kw(KW_JOIN))
                 \o (IF stmt.tail = <<>> THEN <<>> ELSE <<kw(stmt.tail)>>)
    IN  (IF stmt.lc THEN <<" ">> ELSE <<>>) \o JoinWords(words)

\* outcomes of connection.execute on a statement: SQLAlchemyError, or a
\* result with ncols columns and nrows rows
EngineOutcomes ==
    {[error |-> TRUE,  ncols |-> 0, nrows |-> 0],
     [error |-> FALSE, ncols |-> 2, nrows |-> 0],
     [error |-> FALSE, ncols |-> 1, nrows |-> 1],
     [error |-> FALSE, ncols |-> 2, nrows |-> 1]}

NoResult == [none |-> TRUE, ncols |-> 0, nrows |-> 0]

\* DatabaseResult built from the fetched rows (headers are dropped when no
\* row came back)
DatabaseResult(outcome) ==
    [none |-> FALSE,
     ncols |-> IF outcome.nrows = 0 THEN 0 ELSE outcome.ncols,
     nrows |-> outcome.nrows]

\* DatabaseManager.execute_query from connection.execute on: passed tells
\* whether the two checks let the statement through, outcome is the
\* engine's answer
engine_result(passed, outcome) ==
    IF ~passed THEN [engine |-> FALSE, result |-> NoResult]
    ELSE IF outcome.error THEN [engine |-> TRUE, result |-> NoResult]
    ELSE [engine |-> TRUE, result |-> DatabaseResult(outcome)]

\* DatabaseManager.execute_query(sql, role) when the engine answers outcome
execute_query(sql, role, outcome) == engine_result(PassedToEngine(sql, role), outcome)

\* the statement of DatabaseManager.get_available_tables
tables_query ==
    <<"\n">> \o
    <<" "," "," "," "," "," "," "," "," "," "," "," ","S","E","L","E","C","T"," ","t","a","b","l","e","_","n","a","m","e"," ","\n">> \o
    <<" "," "," "," "," "," "," "," "," "," "," "," ","F","R","O","M"," ","i","n","f","o","r","m","a","t","i","o","n","_","s","c","h","e","m","a",".","t","a","b","l","e","s"," ","\n">> \o
    <<" "," "," "," "," "," "," "," "," "," "," "," ","W","H","E","R","E"," ","t","a","b","l","e","_","s","c","h","e","m","a"," ","="," ","'","p","u","b","l","i","c","'","\n">> \o
    <<" "," "," "," "," "," "," "," "," "," "," "," ","O","R","D","E","R"," ","B","Y"," ","t","a","b","l","e","_","n","a","m","e","\n">> \o
    <<" "," "," "," "," "," "," "," "," "," "," "," ">>

\* the statement of DatabaseManager.get_table_schema for table_name
schema_query(table_name) ==
    <<"\n">> \o
    <<" "," "," "," "," "," "," "," "," "," "," "," ","S","E","L","E","C","T"," ","c","o","l","u","m","n","_","n","a","m","e",","," ","d","a","t","a","_","t","y","p","e",","," ","i","s","_","n","u","l","l","a","b","l","e","\n">> \o
    <<" "," "," "," "," "," "," "," "," "," "," "," ","F","R","O","M"," ","i","n","f","o","r","m","a","t","i","o","n","_","s","c","h","e","m","a",".","c","o","l","u","m","n","s"," ","\n">> \o
    <<" "," "," "," "," "," "," "," "," "," "," "," ","W","H","E","R","E"," ","t","a","b","l","e","_","n","a","m","e"," ","="," ","'">> \o
    table_name \o
    <<"'","\n">> \o
    <<" "," "," "," "," "," "," "," "," "," "," "," ","O","R","D","E","R"," ","B","Y"," ","o","r","d","i","n","a","l","_","p","o","s","i","t","i","o","n","\n">> \o
    <<" "," "," "," "," "," "," "," "," "," "," "," ">>

\* None, and a value other than None, returned by the two catalogue readers
NoCatalogue == [none |-> TRUE, nrows |-> 0]

Catalogue(result) == [none |-> FALSE, nrows |-> result.nrows]

\* DatabaseManager.get_available_tables(role) when the engine answers
\* outcome: None, or the list with one name per fetched row
get_available_tables(role, outcome) ==
    IF ~is_authorized(role, "SELECT") THEN NoCatalogue
    ELSE LET result == execute_query(tables_query, role, outcome).result
         IN  IF ~result.none THEN Catalogue(result) ELSE NoCatalogue

\* DatabaseManager.get_table_schema(table_name, role) when the engine
\* answers outcome: None, or the table's columns, one per fetched row
get_table_schema(table_name, role, outcome) ==
    IF ~is_authorized(role, "SELECT") THEN NoCatalogue
    ELSE LET result == execute_query(schema_query(table_name), role, outcome).result
         IN  IF ~result.none THEN Catalogue(result) ELSE NoCatalogue

\* app.get_available_tables (GET /tables): 403 when the reader answers None
tables_endpoint(role, outcome) ==
    LET tables == get_available_tables(role, outcome)
    IN  IF tables.none THEN [status |-> 403, detail |-> "Insufficient permissions", data |-> tables]
        ELSE [status |-> 200, detail |-> "", data |-> tables]

\* app.get_table_schema (GET /schema/{table_name})
schema_endpoint(table_name, role, outcome) ==
    LET schema == get_table_schema(table_name, role, outcome)
    IN  IF schema.none
        THEN [status |-> 403, detail |-> "Insufficient permissions or table not found",
              data |-> schema]
        ELSE [status |-> 200, detail |-> "", data |-> schema]

\* ------------------------------------------------------------------------
\* Router (RouterAgent.classify_intent)
\* ------------------------------------------------------------------------
L_chitchat     == <<"c","h","i","t","c","h","a","t">>
L_db1          == <<"d","b","1">>
L_db2          == <<"d","b","2">>
L_visualize    == <<"v","i","s","u","a","l","i","z","e">>
L_unauthorized == <<"u","n","a","u","t","h","o","r","i","z","e","d">>

\* Command(goto, update); an update is a function from field names to
\* values, <<>> when the command carries none
Command(goto, update) == [goto |-> goto, update |-> update]

\* routing_map with visualize handled by the simple data responder
routing_map_VisualizeToDb1(intent) ==
    CASE intent = L_chitchat     -> "chitchat"
      [] intent = L_db1          -> "db_agent_1"
      [] intent = L_db2          -> "db_agent_2"
      [] intent = L_visualize    -> "db_agent_1"
      [] intent = L_unauthorized -> "unauthorized"
      [] OTHER                   -> "chitchat"

\* routing_map.get(intent, "db_agent_1")
routing_map_DefaultDb1(intent) ==
    CASE intent = L_chitchat     -> "chitchat"
      [] intent = L_db1          -> "db_agent_1"
      [] intent = L_db2          -> "db_agent_2"
      [] intent = L_visualize    -> "db_agent_2"
      [] intent = L_unauthorized -> "unauthorized"
      [] OTHER                   -> "db_agent_1"

\* routing_map.get(intent, "chitchat")
routing_map(intent) ==
    CASE intent = L_chitchat     -> "chitchat"
      [] intent = L_db1          -> "db_agent_1"
      [] intent = L_db2          -> "db_agent_2"
      [] intent = L_visualize    -> "db_agent_2"
      [] intent = L_unauthorized -> "unauthorized"
      [] OTHER                   -> "chitchat"

\* reply: what the classifier answered, or its failure
classify_intent(reply) ==
    IF reply.error THEN Command("chitchat", <<>>)
    ELSE LET intent == lower(strip(reply.content))
         IN  Command(routing_map(intent),
                     IF intent = L_visualize THEN [needs_visualization |-> TRUE] ELSE <<>>)

\* ------------------------------------------------------------------------
\* Shared turn state (ChatState) and the routing functions of the graph
\* ------------------------------------------------------------------------
\* context: a dict with at most the key needs_visualization; "missing" when
\* the key is absent
ChatState(user_id, role, query, context) ==
    [user_id |-> user_id, role |-> role, query |-> query, context |-> context,
     sql_query |-> <<>>, db_results |-> NoResult, chart_spec |-> FALSE,
     response_message |-> "", next_agent |-> "None", is_complete |-> FALSE]

\* state_dict = state.model_dump(); state_dict.update(update);
\* ChatState(**state_dict): keys that are not fields of ChatState are dropped
StateUpdate(state, update) ==
    [f \in DOMAIN state |-> IF f \in DOMAIN update THEN update[f] ELSE state[f]]

\* state.context and state.context.get("needs_visualization", False)
NeedsVisualization(state) == state.context.needs_visualization = "True"

visualization_keywords ==
  << <<"c","h","a","r","t">>, <<"g","r","a","p","h">>, <<"p","l","o","t">>, <<"v","i","s","u","a","l","i","z","e">>, <<"s","h","o","w"," ","m","e"," ","a">>, <<"d","i","s","p","l","a","y">>,
     <<"b","a","r"," ","c","h","a","r","t">>, <<"p","i","e"," ","c","h","a","r","t">>, <<"l","i","n","e"," ","c","h","a","r","t">>, <<"s","c","a","t","t","e","r"," ","p","l","o","t">>,
     <<"c","r","e","a","t","e"," ","a"," ","c","h","a","r","t">>, <<"g","e","n","e","r","a","t","e"," ","a"," ","g","r","a","p","h">>, <<"d","r","a","w"," ","a"," ","p","l","o","t">> >>

is_visualization_request(query) ==
    \E k \in 1..Len(visualization_keywords) : contains(lower(query), visualization_keywords[k])

route_after_router(state) ==
    IF state.next_agent = "None" THEN "chitchat" ELSE state.next_agent

\* _route_after_db looking at the context flag only
route_after_db_FlagOnly(state) ==
    IF NeedsVisualization(state) THEN "visualizer" ELSE "summarizer"

\* ChatbotWorkflow._route_after_db: the command's goto is not consulted
route_after_db(state) ==
    IF NeedsVisualization(state) THEN "visualizer"
    ELSE IF is_visualization_request(state.query) THEN "visualizer"
    ELSE "summarizer"

\* ------------------------------------------------------------------------
\* Statement generation (DatabaseAgent1 / DatabaseAgent2 / SQLValidator)
\* ------------------------------------------------------------------------
\* the backquote, which a TLA+ string cannot hold, is written ~
BQ == "~"
\* the markdown code fences removed from a generated statement
FENCE == <<BQ, BQ, BQ>>
FENCE_SQL == <<BQ, BQ, BQ, "s", "q", "l">>

\* re.sub(pat\n?, '', s) for a literal pat, scanning from position i
re_sub_remove(pat, s, i) ==
    LET rest[b \in 1..(Len(s) + 1)] ==
            LET matches == {k \in b..(Len(s) - Len(pat) + 1) :
                              \A j \in 1..Len(pat) : s[k + j - 1] = pat[j]}
            IN  IF matches = {} THEN SubSeq(s, b, Len(s))
                ELSE LET m == Min(matches)
                         j == m + Len(pat)
                     IN  SubSeq(s, b, m - 1)
                         \o rest[IF j <= Len(s) /\ s[j] = "\n" THEN j + 1 ELSE j]
    IN  rest[i]

\* DatabaseAgent1._clean_sql / DatabaseAgent2._clean_sql
clean_sql(sql) ==
    LET prefixed(unfenced) ==
            IF startswith(upper(unfenced), KW_SELECT) THEN unfenced
            ELSE KW_SELECT \o <<" ">> \o unfenced
    IN  prefixed(strip(re_sub_remove(FENCE, re_sub_remove(FENCE_SQL, sql, 1), 1)))

\* DatabaseAgent1._generate_sql, the pattern-based fallback
fallback_sql(query) ==
    LET query_lower == lower(query)
        has(p) == contains(query_lower, p)
        users == <<"S","E","L","E","C","T"," ","*"," ","F","R","O","M"," ","u","s","e","r","s">>
    IN  IF has(<<"s","h","o","w"," ","m","e"," ","a","l","l"," ","u","s","e","r","s">>) \/ has(<<"l","i","s","t"," ","a","l","l"," ","u","s","e","r","s">>) THEN users
        ELSE IF has(<<"s","h","o","w"," ","m","e"," ","a","l","l"," ","p","r","o","d","u","c","t","s">>) \/ has(<<"l","i","s","t"," ","a","l","l"," ","p","r","o","d","u","c","t","s">>)
             THEN <<"S","E","L","E","C","T"," ","*"," ","F","R","O","M"," ","p","r","o","d","u","c","t","s">>
        ELSE IF has(<<"s","h","o","w"," ","m","e"," ","a","l","l"," ","o","r","d","e","r","s">>) \/ has(<<"l","i","s","t"," ","a","l","l"," ","o","r","d","e","r","s">>)
             THEN <<"S","E","L","E","C","T"," ","*"," ","F","R","O","M"," ","o","r","d","e","r","s">>
        ELSE IF has(<<"u","s","e","r","s"," ","f","r","o","m">>)
             THEN IF has(<<"n","e","w"," ","y","o","r","k">>) THEN users \o <<" ","W","H","E","R","E"," ","c","i","t","y"," ","="," ","'","N","e","w"," ","Y","o","r","k","'">>
                  ELSE IF has(<<"l","o","s"," ","a","n","g","e","l","e","s">>) THEN users \o <<" ","W","H","E","R","E"," ","c","i","t","y"," ","="," ","'","L","o","s"," ","A","n","g","e","l","e","s","'">>
                  ELSE IF has(<<"c","h","i","c","a","g","o">>) THEN users \o <<" ","W","H","E","R","E"," ","c","i","t","y"," ","="," ","'","C","h","i","c","a","g","o","'">>
                  ELSE IF has(<<"b","o","s","t","o","n">>) THEN users \o <<" ","W","H","E","R","E"," ","c","i","t","y"," ","="," ","'","B","o","s","t","o","n","'">>
                  ELSE IF has(<<"s","e","a","t","t","l","e">>) THEN users \o <<" ","W","H","E","R","E"," ","c","i","t","y"," ","="," ","'","S","e","a","t","t","l","e","'">>
                  ELSE users
        ELSE <<"S","E","L","E","C","T"," ","*"," ","F","R","O","M"," ","u","s","e","r","s"," ","L","I","M","I","T"," ","1","0">>

\* DatabaseAgent2._generate_complex_sql, the pattern-based fallback
fallback_complex_sql(query) ==
    LET query_lower == lower(query)
        has(p) == contains(query_lower, p)
        orders_with_users == <<"S","E","L","E","C","T"," ","u",".","i","d",","," ","u",".","n","a","m","e",","," ","u",".","e","m","a","i","l",","," ","o",".","i","d"," ","a","s"," ","o","r","d","e","r","_","i","d",","," ","o",".","u","s","e","r","_","i","d",","," ","o",".","p","r","o","d","u","c","t","_","i","d",","," ","o",".","q","u","a","n","t","i","t","y",","," ","o",".","t","o","t","a","l","_","a","m","o","u","n","t",","," ","o",".","o","r","d","e","r","_","d","a","t","e",","," ","o",".","s","t","a","t","u","s"," ","F","R","O","M"," ","u","s","e","r","s"," ","u"," ","J","O","I","N"," ","o","r","d","e","r","s"," ","o"," ","O","N"," ","u",".","i","d"," ","="," ","o",".","u","s","e","r","_","i","d">>
    IN  IF has(<<"o","r","d","e","r","s"," ","w","i","t","h"," ","u","s","e","r"," ","n","a","m","e","s">>) THEN orders_with_users
        ELSE IF has(<<"t","o","t","a","l"," ","r","e","v","e","n","u","e"," ","b","y"," ","c","i","t","y">>)
             THEN <<"S","E","L","E","C","T"," ","u",".","c","i","t","y",","," ","S","U","M","(","o",".","t","o","t","a","l","_","a","m","o","u","n","t",")"," ","a","s"," ","t","o","t","a","l","_","r","e","v","e","n","u","e"," ","F","R","O","M"," ","u","s","e","r","s"," ","u"," ","J","O","I","N"," ","o","r","d","e","r","s"," ","o"," ","O","N"," ","u",".","i","d"," ","="," ","o",".","u","s","e","r","_","i","d"," ","G","R","O","U","P"," ","B","Y"," ","u",".","c","i","t","y">>
        ELSE IF has(<<"t","o","p">>) /\ has(<<"c","u","s","t","o","m","e","r","s">>)
             THEN <<"S","E","L","E","C","T"," ","u",".","i","d",","," ","u",".","n","a","m","e",","," ","u",".","e","m","a","i","l",","," ","S","U","M","(","o",".","t","o","t","a","l","_","a","m","o","u","n","t",")"," ","a","s"," ","t","o","t","a","l","_","s","p","e","n","t"," ","F","R","O","M"," ","u","s","e","r","s"," ","u"," ","J","O","I","N"," ","o","r","d","e","r","s"," ","o"," ","O","N"," ","u",".","i","d"," ","="," ","o",".","u","s","e","r","_","i","d"," ","G","R","O","U","P"," ","B","Y"," ","u",".","i","d",","," ","u",".","n","a","m","e",","," ","u",".","e","m","a","i","l"," ","O","R","D","E","R"," ","B","Y"," ","t","o","t","a","l","_","s","p","e","n","t"," ","D","E","S","C">>
        ELSE IF has(<<"s","a","l","e","s"," ","b","y"," ","p","r","o","d","u","c","t"," ","c","a","t","e","g","o","r","y">>)
             THEN <<"S","E","L","E","C","T"," ","p",".","c","a","t","e","g","o","r","y",","," ","S","U","M","(","o",".","t","o","t","a","l","_","a","m","o","u","n","t",")"," ","a","s"," ","t","o","t","a","l","_","s","a","l","e","s"," ","F","R","O","M"," ","p","r","o","d","u","c","t","s"," ","p"," ","J","O","I","N"," ","o","r","d","e","r","s"," ","o"," ","O","N"," ","p",".","i","d"," ","="," ","o",".","p","r","o","d","u","c","t","_","i","d"," ","G","R","O","U","P"," ","B","Y"," ","p",".","c","a","t","e","g","o","r","y">>
        ELSE orders_with_users

\* _generate_sql: reply is what the generator answered, or its failure
generate_sql(query, reply) ==
    IF reply.error THEN fallback_sql(query) ELSE clean_sql(strip(reply.content))

\* _generate_complex_sql
generate_complex_sql(query, reply) ==
    IF reply.error THEN fallback_complex_sql(query) ELSE clean_sql(strip(reply.content))

\* str.split(): the maximal runs of non-whitespace characters from position i
split(s, i) ==
    LET words[b \in 1..(Len(s) + 1)] ==
            LET starts == {k \in b..Len(s) : s[k] \notin SpaceChars}
            IN  IF starts = {} THEN <<>>
                ELSE LET w == Min(starts)
                         stop == {k \in w..Len(s) : s[k] \in SpaceChars}
                         e == IF stop = {} THEN Len(s) ELSE Min(stop) - 1
                     IN  <<SubSeq(s, w, e)>> \o words[e + 1]
    IN  words[i]

\* SQLValidator.validate_query: reply is what the reviewing model answered,
\* or its failure
validate_query(sql_query, reply) ==
    IF reply.error
    THEN [validation_passed |-> FALSE, corrected_query |-> sql_query]
    ELSE [validation_passed |-> TRUE,
          corrected_query |->
              JoinWords(split(re_sub_remove(FENCE, re_sub_remove(FENCE_SQL, strip(reply.content), 1), 1), 1))]

\* the statement DatabaseAgent1.process_query checks and executes
agent1_sql(state, gen, val) ==
    LET sql0 == generate_sql(state.query, gen)
        validation_result == validate_query(sql0, val)
    IN  IF ~validation_result.validation_passed THEN validation_result.corrected_query
        ELSE sql0

\* the statements SchemaIntrospector.get_schema_context sends to
\* execute_query under the role "admin" while DatabaseAgent1 generates a
\* statement: the table listing, then PRAGMA table_info for a listed table
schema_context_queries ==
    {<<"S","E","L","E","C","T"," ","n","a","m","e"," ","F","R","O","M"," ","s","q","l","i","t","e","_","m","a","s","t","e","r"," ","W","H","E","R","E"," ","t","y","p","e","=","'","t","a","b","l","e","'"," ","A","N","D"," ","n","a","m","e"," ","N","O","T"," ","L","I","K","E"," ","'","s","q","l","i","t","e","_","%","'">>,
     <<"P","R","A","G","M","A"," ","t","a","b","l","e","_","i","n","f","o","(","u","s","e","r","s",")">>}

\* the introspection statements that reach the engine
introspection_executed == {q \in schema_context_queries : PassedToEngine(q, ADMIN)}

MSG_DENIED == "Sorry, you don't have permission to access that information."
MSG_NO_DATA_1 == "I couldn't retrieve the data you requested. Please try rephrasing your question."
MSG_NO_DATA_2 == "I couldn't retrieve the complex data you requested. Please try rephrasing your question."

\* DatabaseAgent1.process_query / DatabaseAgent2.process_query from the
\* access check on: access is what validate_query_access returned for
\* sql_query, result what execute_query returned
db_process(state, sql_query, access, result, wants_chart, no_data_message) ==
    IF ~access.allowed
    THEN Command("unauthorized", [response_message |-> MSG_DENIED, is_complete |-> TRUE])
    ELSE IF result.none
    THEN Command("summarizer", [response_message |-> no_data_message, is_complete |-> TRUE])
    ELSE Command(IF wants_chart THEN "visualizer" ELSE "summarizer",
                 [db_results |-> result, sql_query |-> sql_query])

MSG_DB1_AGENT_ERROR == "I encountered an error processing your request. Please try again."
MSG_DB2_AGENT_ERROR == "I encountered an error processing your complex request. Please try again."

\* the except branch of DatabaseAgent1.process_query / DatabaseAgent2.process_query
db_process_error(message) ==
    Command("summarizer", [response_message |-> message, is_complete |-> TRUE])

\* ------------------------------------------------------------------------
\* Visualizer, summarizer, unauthorized and chitchat responders
\* ------------------------------------------------------------------------
MSG_NEED_DATA == "I need data from the database to create a visualization. Please ask a data question first to fetch the information."
MSG_NO_CHART == "I couldn't create a visualization from the data. Let me provide the information in a different format."
MSG_SUMMARY_ERROR == "I apologize, but I encountered an error processing your request. Please try again."
MSG_CHAT_FALLBACK == "Hello! I'm here to help. How can I assist you today?"
MSG_DEFAULT == "I'm sorry, I couldn't process your request."

\* VisualizerAgent._generate_chart_spec produces a chart: headers and rows
\* are present and the first row has two columns
generate_chart_spec(db_results) ==
    db_results.ncols > 0 /\ db_results.nrows > 0 /\ db_results.ncols >= 2

\* VisualizerAgent.create_visualization; the chart's contents are not kept,
\* chart_spec is TRUE when a chart specification is present
create_visualization(state) ==
    IF state.db_results.none
    THEN Command("summarizer", [response_message |-> MSG_NEED_DATA, is_complete |-> TRUE])
    ELSE IF ~generate_chart_spec(state.db_results)
    THEN Command("summarizer", [response_message |-> MSG_NO_CHART, is_complete |-> TRUE])
    ELSE Command("summarizer", [chart_spec |-> TRUE])

\* SummarizerAgent.summarize: reply is the composed text, or the failure
summarize(state, reply) ==
    IF reply.error
    THEN Command("END", [response_message |-> MSG_SUMMARY_ERROR, is_complete |-> TRUE])
    ELSE Command("END", [response_message |-> reply.text, is_complete |-> TRUE])

\* _generate_denial_message answering with the validator's reason
generate_denial_message_Raw(role) == "Access denied to table"

\* UnauthorizedAgent._generate_denial_message
generate_denial_message(role) ==
    CASE role = VIEWER ->
           "I don't have permission to access that information for you. As a viewer, you have limited access to data. Please contact your administrator if you need access to this data."
      [] role = READONLY ->
           "I don't have permission to access that information for you. Your read-only access doesn't include this information. Please contact your administrator if you need access to this data."
      [] role = ANALYST ->
           "I don't have permission to access that information for you. This data may require admin-level access. Please contact your administrator if you need access to this data."
      [] OTHER ->
           "I don't have permission to access that information for you. Please contact your administrator if you need access to this data."

\* UnauthorizedAgent.handle_unauthorized
handle_unauthorized(state) ==
    Command("END", [response_message |-> generate_denial_message(state.role),
                    is_complete |-> TRUE])

\* ChitChatAgent.handle_conversation
handle_conversation(state, reply) ==
    IF reply.error
    THEN Command("END", [response_message |-> MSG_CHAT_FALLBACK, is_complete |-> TRUE])
    ELSE Command("END", [response_message |-> reply.text, is_complete |-> TRUE])

\* the messages set by the except branches of the graph nodes and of
\* process_query
MSG_DB1_NODE_ERROR == "I encountered an error processing your request."
MSG_DB2_NODE_ERROR == "I encountered an error processing your complex request."
MSG_VISUALIZER_NODE_ERROR == "I couldn't create a visualization. Let me provide the data in a different format."
MSG_UNAUTHORIZED_NODE_ERROR == "I don't have permission to access that information."
MSG_SUMMARIZER_NODE_ERROR == "I apologize, but I encountered an error. Please try again."
MSG_WORKFLOW_ERROR == "I apologize, but I encountered an error processing your request. Please try again."

\* the except branch of VisualizerAgent.create_visualization
create_visualization_error ==
    Command("summarizer", [response_message |-> MSG_VISUALIZER_NODE_ERROR,
                           is_complete |-> TRUE])

\* the unconditional edges of the graph: the visualizer leads to the
\* summarizer, the three responders that close a turn lead to END
edge_VisualizerToEnd(name) == "END"

edge(name) == IF name = "visualizer" THEN "summarizer" ELSE "END"

\* final_state.get("response_message") without the default message
final_message_NoDefault(state) == state.response_message

\* final_state.get("response_message") or the default message
final_message(state) ==
    IF state.response_message = "" THEN MSG_DEFAULT ELSE state.response_message

\* ------------------------------------------------------------------------
\* History store (HistoryManager)
\* ------------------------------------------------------------------------
\* number of entries at which add_turn consolidates a user's history
SUMMARIZE_AT == 100
\* number of oldest entries one consolidation replaces by a summary entry
SUMMARIZE_OLD == 80

\* response_data of the summarizer: None, or a dict with the keys table
\* and/or chart; original_count and key_topics are used by summary entries
\* only
ResponseData(state) ==
    [none |-> state.db_results.none /\ ~state.chart_spec,
     table |-> ~state.db_results.none,
     chart |-> state.chart_spec,
     original_count |-> 0,
     key_topics |-> {}]

\* ConversationTurn(...).model_dump(); the timestamp is not kept
ConversationTurn(user_query, assistant_response, data) ==
    [kind |-> "turn", user_query |-> user_query,
     assistant_response |-> assistant_response, data |-> data]

\* str(n) for 0 <= n <= 999
str_int(n) ==
    LET digit(d) == <<"0","1","2","3","4","5","6","7","8","9">>[d + 1]
    IN  IF n < 10 THEN <<digit(n)>>
        ELSE IF n < 100 THEN <<digit(n \div 10), digit(n % 10)>>
        ELSE <<digit(n \div 100), digit((n \div 10) % 10), digit(n % 10)>>

\* the topics of HistoryManager._extract_key_topics and the words that
\* select each of them
topic_keywords ==
    <<[topic |-> "database queries",
       words |-> {<<"u","s","e","r">>, <<"c","u","s","t","o","m","e","r">>, <<"o","r","d","e","r">>, <<"p","r","o","d","u","c","t">>}],
      [topic |-> "data visualization",
       words |-> {<<"c","h","a","r","t">>, <<"g","r","a","p","h">>, <<"v","i","s","u","a","l">>, <<"p","l","o","t">>}],
      [topic |-> "personal interaction",
       words |-> {<<"n","a","m","e">>, <<"h","e","l","l","o">>, <<"h","o","w"," ","a","r","e"," ","y","o","u">>}],
      [topic |-> "financial analysis",
       words |-> {<<"r","e","v","e","n","u","e">>, <<"s","a","l","e","s">>, <<"t","o","t","a","l">>, <<"a","m","o","u","n","t">>}],
      [topic |-> "geographic data",
       words |-> {<<"c","i","t","y">>, <<"l","o","c","a","t","i","o","n">>, <<"a","d","d","r","e","s","s">>}]>>

\* HistoryManager._extract_key_topics: the topics whose words occur in one
\* of the lower-cased queries; a list of at most five topics in the code,
\* in the order of a Python set, kept here as a set
extract_key_topics(queries) ==
    {topic_keywords[t].topic : t \in
        {t \in 1..Len(topic_keywords) :
            \E i \in 1..Len(queries) : \E w \in topic_keywords[t].words :
                contains(lower(queries[i]), w)}}

\* HistoryManager._create_conversation_summary: the summary entry of the
\* consolidated entries; the response text, which spells out key_topics,
\* and interaction_types are not kept
create_conversation_summary(old_conversations) ==
    [kind |-> "summary",
     user_query |-> <<"[","C","O","N","V","E","R","S","A","T","I","O","N"," ","S","U","M","M","A","R","Y","]"," ">> \o str_int(Len(old_conversations))
                      \o <<" ","p","r","e","v","i","o","u","s"," ","c","o","n","v","e","r","s","a","t","i","o","n","s">>,
     assistant_response |-> "Previous conversation summary",
     data |-> [none |-> FALSE, table |-> FALSE, chart |-> FALSE,
               original_count |-> Len(old_conversations),
               key_topics |-> extract_key_topics(
                   [i \in 1..Len(old_conversations) |-> old_conversations[i].user_query])]]

\* HistoryManager.get_history: conversations.get(user_id, [])
get_history(convs, user_id) ==
    IF user_id \in DOMAIN convs THEN convs[user_id] ELSE <<>>

\* _summarize_history keeping the consolidated entries next to the summary
summarize_history_KeepOld(entries) ==
    IF Len(entries) < SUMMARIZE_AT THEN entries
    ELSE <<create_conversation_summary(SubSeq(entries, 1, SUMMARIZE_OLD))>>
         \o SubSeq(entries, SUMMARIZE_OLD, Len(entries))

\* _summarize_history putting the summary after the recent entries
summarize_history_SummaryLast(entries) ==
    IF Len(entries) < SUMMARIZE_AT THEN entries
    ELSE SubSeq(entries, SUMMARIZE_OLD + 1, Len(entries))
         \o <<create_conversation_summary(SubSeq(entries, 1, SUMMARIZE_OLD))>>

\* HistoryManager._summarize_history on the entries of one user
summarize_history(entries) ==
    IF Len(entries) < SUMMARIZE_AT THEN entries
    ELSE <<create_conversation_summary(SubSeq(entries, 1, SUMMARIZE_OLD))>>
         \o SubSeq(entries, SUMMARIZE_OLD + 1, Len(entries))

\* HistoryManager.add_turn: the store after the call
add_turn(convs, user_id, user_query, assistant_response, data) ==
    LET appended == Append(get_history(convs, user_id),
                           ConversationTurn(user_query, assistant_response, data))
        kept == IF Len(appended) >= SUMMARIZE_AT THEN summarize_history(appended)
                ELSE appended
    IN  [u \in DOMAIN convs \cup {user_id} |-> IF u = user_id THEN kept ELSE convs[u]]

\* the Python slice history[-limit:] for limit >= 0: -0 is 0, so the slice
\* starts at the first entry when limit is 0
slice_last(history, limit) ==
    LET n == Len(history)
        start == IF limit = 0 THEN 0
                 ELSE IF n - limit < 0 THEN 0 ELSE n - limit
    IN  SubSeq(history, start + 1, n)

\* HistoryManager.get_recent_history: history[-limit:] if history else []
get_recent_history(convs, user_id, limit) ==
    LET history == get_history(convs, user_id)
    IN  IF history = <<>> THEN <<>> ELSE slice_last(history, limit)

\* clear_history that empties the user's list and keeps the key
clear_history_KeepKey(convs, user_id) ==
    [u \in DOMAIN convs |-> IF u = user_id THEN <<>> ELSE convs[u]]

\* HistoryManager.clear_history: the store after the call
clear_history(convs, user_id) ==
    [u \in DOMAIN convs \ {user_id} |-> convs[u]]

\* HistoryManager.get_all_users
get_all_users(convs) == DOMAIN convs

\* ------------------------------------------------------------------------
\* Inputs of a turn and answers of the external collaborators
\* ------------------------------------------------------------------------
Queries ==
    {<<"s","h","o","w"," ","m","e"," ","a"," ","b","a","r"," ","c","h","a","r","t"," ","o","f"," ","s","a","l","e","s"," ","b","y"," ","m","o","n","t","h">>,
     <<"s","h","o","w"," ","m","e"," ","a","l","l"," ","u","s","e","r","s">>,
     <<"h","e","l","l","o",","," ","h","o","w"," ","a","r","e"," ","y","o","u">>,
     <<"t","o","p"," ","c","u","s","t","o","m","e","r","s"," ","b","y"," ","s","p","e","n","d","i","n","g">>,
     <<"L","i","s","t"," ","a","l","l"," ","p","r","o","d","u","c","t","s">>,
     <<>>}

\* the user_id of a request: a user, or the empty string
UserIds == {"u1", ""}

\* the request's context: no needs_visualization key, or the key set
Contexts == {"missing", "True", "False"}

Failure == [error |-> TRUE, content |-> <<>>, text |-> ""]

Reply(content) == [error |-> FALSE, content |-> content, text |-> ""]

TextReply(text) == [error |-> FALSE, content |-> <<>>, text |-> text]

\* the classifier answers a label, possibly in another case and padded, or
\* a word outside the vocabulary, or fails
ClassifierReplies ==
    {Failure} \cup
    {Reply(c) : c \in {L_chitchat, L_db1, L_db2, L_visualize, L_unauthorized,
                       <<"V","i","s","u","a","l","i","z","e"," ">>, <<"w","e","a","t","h","e","r">>}}

\* the statement generator answers a statement, possibly fenced, or fails
GeneratorReplies ==
    {Failure} \cup
    {Reply(c) : c \in {<<"S","E","L","E","C","T"," ","*"," ","F","R","O","M"," ","u","s","e","r","s">>,
                       <<"S","E","L","E","C","T"," ","p","a","s","s","w","o","r","d"," ","F","R","O","M"," ","u","s","e","r","s">>,
                       <<"S","E","L","E","C","T"," ","*"," ","F","R","O","M"," ","s","e","c","r","e","t","s">>,
                       <<"s","e","l","e","c","t"," ","n","a","m","e"," ","f","r","o","m"," ","u","s","e","r","s"," ","j","o","i","n"," ","O","r","d","e","r","s">>,
                       <<"S","E","L","E","C","T"," ","*"," ","F","R","O","M"," ","\"","s","e","c","r","e","t","s","\"">>,
                       <<"D","E","L","E","T","E"," ","F","R","O","M"," ","u","s","e","r","s">>,
                       <<"S","E","L","E","C","T"," ","n","a","m","e"," ","F","R","O","M"," ","u","s","e","r","s"," ","U","N","I","O","N"," ","S","E","L","E","C","T"," ","p","a","s","s","w","o","r","d"," ","F","R","O","M"," ","s","e","c","r","e","t","s">>,
                       FENCE_SQL \o <<"\n">> \o <<"S","E","L","E","C","T"," ","*"," ","F","R","O","M"," ","p","r","o","d","u","c","t","s">> \o <<"\n">> \o FENCE}}

\* the reviewing model answers a rewritten statement, or fails
ValidatorReplies == {Failure, Reply(<<"S","E","L","E","C","T"," "," ","i","d",","," ","n","a","m","e"," "," ","F","R","O","M"," ","u","s","e","r","s">>)}

\* the text generators answer a text, possibly empty after strip(), or fail
TextReplies == {Failure, TextReply("<generated text>"), TextReply("")}

\* ------------------------------------------------------------------------
\* State
\* ------------------------------------------------------------------------
VARIABLES
    call,      \* the arguments of a direct call to the validator or executor
    ret,       \* the operation applied to call and the value it returned
    turns,     \* number of chat requests received
    node,      \* the graph node process_query runs next; "idle" outside a turn
    st,        \* the ChatState of the turn
    ran,       \* the nodes executed in the turn, in order
    label,     \* the classifier's reply in the turn
    verdict,   \* the access validator's verdict in the turn: none, allow, deny
    engine,    \* the statements handed to connection.execute in the turn, each
               \* with the role execute_query was called with
    response,  \* what the /chat endpoint answered last
    failed,    \* the language-model collaborators (classifier, generator,
               \* chitchat, summarizer) that failed in the turn
    raised,    \* the nodes whose try block raised in the turn
    conversations,  \* HistoryManager.conversations: user_id -> list of entries
    threads    \* the threads running add_turn: position and local variables

wfvars == <<turns, node, st, ran, label, verdict, engine, response, failed, raised,
            conversations, threads>>

vars == <<call, ret, turns, node, st, ran, label, verdict, engine, response, failed,
          raised, conversations, threads>>

NoCall == [kind |-> "none"]

NoReturn == [op |-> "none"]

NoResponse ==
    [status |-> 0, message |-> "", table |-> FALSE, chart |-> FALSE, history |-> <<>>]

\* HistoryManager.__init__: no user has a history
NoConversations == [u \in {} |-> <<>>]

\* no turn is running: process_query holds no ChatState
NoTurn ==
    /\ node = "idle"
    /\ st = ChatState("", <<>>, <<>>, [needs_visualization |-> "missing"])
    /\ ran = <<>>
    /\ label = Failure
    /\ verdict = "none"
    /\ engine = {}
    /\ failed = {}
    /\ raised = {}

\* no thread is inside add_turn
NoThreads == <<>>

\* the workflow before the first request
Idle ==
    /\ turns = 0
    /\ NoTurn
    /\ response = NoResponse
    /\ conversations = NoConversations
    /\ threads = NoThreads

\* ------------------------------------------------------------------------
\* Direct calls to the policy store, the validator and the executor
\* ------------------------------------------------------------------------
SqlCalls == [kind : {"sql"}, role : RoleInputs, stmt : Statements]

PolicyCalls ==
    [kind : {"policy"}, role : RoleInputs,
     table : {T_users, <<"O","R","D","E","R","S">>, T_products, T_secrets},
     column : {C_id, <<"E","m","a","i","l">>, C_amount, C_password},
     permission : Permission]

DbCalls ==
    [kind : {"db"}, role : RoleInputs, table : {T_users, T_secrets},
     operation : {"SELECT", "DELETE"}]

InitRBAC ==
    /\ call \in SqlCalls \cup PolicyCalls \cup DbCalls
    /\ ret = NoReturn
    /\ Idle

ValidateQueryAccess ==
    /\ call.kind = "sql" /\ ret.op = "none"
    /\ ret' = [op |-> "validate_query_access",
               value |-> validate_query_access(call.role, Render(call.stmt))]
    /\ UNCHANGED <<call, wfvars>>

ExecuteQuery ==
    /\ call.kind = "sql" /\ ret.op = "none"
    /\ \E outcome \in EngineOutcomes :
         ret' = [op |-> "execute_query",
                 value |-> execute_query(Render(call.stmt), call.role, outcome)]
    /\ UNCHANGED <<call, wfvars>>

HasPermission ==
    /\ call.kind = "policy" /\ ret.op = "none"
    /\ ret' = [op |-> "has_permission",
               value |-> has_permission(call.role, call.permission)]
    /\ UNCHANGED <<call, wfvars>>

CanAccessTable ==
    /\ call.kind = "policy" /\ ret.op = "none"
    /\ ret' = [op |-> "can_access_table",
               value |-> can_access_table(call.role, call.table)]
    /\ UNCHANGED <<call, wfvars>>

CanAccessColumn ==
    /\ call.kind = "policy" /\ ret.op = "none"
    /\ ret' = [op |-> "can_access_column",
               value |-> can_access_column(call.role, call.table, call.column)]
    /\ UNCHANGED <<call, wfvars>>

GetRoleInfo ==
    /\ call.kind = "policy" /\ ret.op = "none"
    /\ ret' = [op |-> "get_role_info", value |-> get_role_info(call.role)]
    /\ UNCHANGED <<call, wfvars>>

IsAuthorized ==
    /\ call.kind = "db" /\ ret.op = "none"
    /\ ret' = [op |-> "is_authorized", value |-> is_authorized(call.role, call.operation)]
    /\ UNCHANGED <<call, wfvars>>

GetAvailableTables ==
    /\ call.kind = "db" /\ ret.op = "none"
    /\ \E outcome \in EngineOutcomes :
         ret' = [op |-> "get_available_tables",
                 value |-> tables_endpoint(call.role, outcome)]
    /\ UNCHANGED <<call, wfvars>>

GetTableSchema ==
    /\ call.kind = "db" /\ ret.op = "none"
    /\ \E outcome \in EngineOutcomes :
         ret' = [op |-> "get_table_schema",
                 value |-> schema_endpoint(call.table, call.role, outcome)]
    /\ UNCHANGED <<call, wfvars>>

NextRBAC ==
    \/ IsAuthorized
    \/ GetAvailableTables
    \/ GetTableSchema
    \/ ValidateQueryAccess
    \/ ExecuteQuery
    \/ HasPermission
    \/ CanAccessTable
    \/ CanAccessColumn
    \/ GetRoleInfo

SpecRBAC == InitRBAC /\ [][NextRBAC]_vars

\* ------------------------------------------------------------------------
\* The /chat endpoint and the workflow graph (one action per node)
\* ------------------------------------------------------------------------
Init ==
    /\ call = NoCall
    /\ ret = NoReturn
    /\ Idle

\* valid_roles with the check done on the lower-cased role
valid_roles_AnyCase == {r \in RoleInputs : lower(r) \in {ANALYST, ADMIN, READONLY, VIEWER}}

valid_roles == {ANALYST, ADMIN, READONLY, VIEWER}

\* app.chat up to the call of process_query, and process_query up to the
\* start of the graph: a bad request is answered 400, otherwise the initial
\* ChatState is built and the graph starts at the router
Chat ==
    /\ node = "idle"
    /\ turns < MaxTurns
    /\ \E user_id \in UserIds, role \in RoleInputs, query \in Queries, context \in Contexts :
         /\ turns' = turns + 1
         /\ IF user_id = "" \/ role = <<>> \/ query = <<>> \/ role \notin valid_roles
            THEN /\ response' = [NoResponse EXCEPT !.status = 400]
                 /\ UNCHANGED <<node, st>>
            ELSE /\ response' = NoResponse
                 /\ st' = ChatState(user_id, role, query, [needs_visualization |-> context])
                 /\ node' = "router"
    /\ UNCHANGED <<call, ret, threads, ran, label, verdict, engine, failed, raised, conversations>>

\* process_query returns: its ChatState and the turn's records are dropped
EndTurn ==
    /\ node' = "idle"
    /\ st' = ChatState("", <<>>, <<>>, [needs_visualization |-> "missing"])
    /\ ran' = <<>>
    /\ label' = Failure
    /\ verdict' = "none"
    /\ engine' = {}
    /\ failed' = {}
    /\ raised' = {}

\* a node returned new_state: the graph moves to next
Step(name, new_state, next) ==
    /\ st' = new_state
    /\ node' = next
    /\ ran' = Append(ran, name)

\* ChatbotWorkflow._router_node (try branch, except branch), then
\* _route_after_router
RouterNode ==
    /\ node = "router"
    /\ \/ \E reply \in ClassifierReplies :
            LET command == classify_intent(reply)
                new_state == [StateUpdate(st, command.update) EXCEPT !.next_agent = command.goto]
            IN  /\ Step("router", new_state, route_after_router(new_state))
                /\ label' = reply
                /\ failed' = IF reply.error THEN failed \cup {"classifier"} ELSE failed
                /\ raised' = raised
       \/ LET new_state == [st EXCEPT !.next_agent = "chitchat"]
          IN  /\ Step("router", new_state, route_after_router(new_state))
              /\ raised' = raised \cup {"router"}
              /\ UNCHANGED <<label, failed>>
    /\ UNCHANGED <<call, ret, threads, turns, verdict, engine, response, conversations>>

\* ChatbotWorkflow._chitchat_node (try branch, except branch), then the edge
\* to END
ChitchatNode ==
    /\ node = "chitchat"
    /\ \/ \E reply \in TextReplies :
            LET command == handle_conversation(st, reply)
                new_state == [StateUpdate(st, command.update)
                                EXCEPT !.is_complete = TRUE, !.next_agent = "None"]
            IN  /\ Step("chitchat", new_state, edge("chitchat"))
                /\ failed' = IF reply.error THEN failed \cup {"chitchat"} ELSE failed
                /\ raised' = raised
       \/ LET new_state == [st EXCEPT !.is_complete = TRUE,
                                      !.response_message = MSG_CHAT_FALLBACK]
          IN  /\ Step("chitchat", new_state, edge("chitchat"))
              /\ raised' = raised \cup {"chitchat"}
              /\ failed' = failed
    /\ UNCHANGED <<call, ret, threads, turns, label, verdict, engine, response, conversations>>

\* ChatbotWorkflow._db_agent_1_node with DatabaseAgent1.process_query (the
\* agent answers, the agent's except branch, the node's except branch), then
\* _route_after_db
DbAgent1Node ==
    /\ node = "db_agent_1"
    /\ \/ \E gen \in GeneratorReplies, val \in ValidatorReplies :
            \E sql_query \in {agent1_sql(st, gen, val)} :
            \E access \in {validate_query_access(st.role, sql_query)} :
            \E passed \in {PassedToEngine(sql_query, st.role)} :
                \E outcome \in EngineOutcomes :
                  LET executed == engine_result(passed, outcome)
                      command == db_process(st, sql_query, access, executed.result,
                                            NeedsVisualization(st), MSG_NO_DATA_1)
                      new_state == [StateUpdate(st, command.update)
                                      EXCEPT !.next_agent = command.goto]
                  IN  /\ Step("db_agent_1", new_state, route_after_db(new_state))
                      /\ verdict' = IF access.allowed THEN "allow" ELSE "deny"
                      /\ engine' = engine
                                     \cup {[role |-> ADMIN, sql |-> q] :
                                              q \in introspection_executed}
                                     \cup (IF access.allowed /\ executed.engine
                                           THEN {[role |-> st.role, sql |-> sql_query]}
                                           ELSE {})
                      /\ failed' = failed
                                     \cup (IF gen.error THEN {"generator"} ELSE {})
                      /\ raised' = raised
       \/ LET command == db_process_error(MSG_DB1_AGENT_ERROR)
              new_state == [StateUpdate(st, command.update)
                              EXCEPT !.next_agent = command.goto]
          IN  /\ Step("db_agent_1", new_state, route_after_db(new_state))
              /\ raised' = raised \cup {"db_agent_1"}
              /\ UNCHANGED <<verdict, engine, failed>>
       \/ LET new_state == [st EXCEPT !.next_agent = "summarizer",
                                      !.response_message = MSG_DB1_NODE_ERROR]
          IN  /\ Step("db_agent_1", new_state, route_after_db(new_state))
              /\ raised' = raised \cup {"db_agent_1"}
              /\ UNCHANGED <<verdict, engine, failed>>
    /\ UNCHANGED <<call, ret, threads, turns, label, response, conversations>>

\* ChatbotWorkflow._db_agent_2_node with DatabaseAgent2.process_query (the
\* agent answers, the agent's except branch, the node's except branch), then
\* _route_after_db
DbAgent2Node ==
    /\ node = "db_agent_2"
    /\ \/ \E gen \in GeneratorReplies :
            \E sql_query \in {generate_complex_sql(st.query, gen)} :
            \E access \in {validate_query_access(st.role, sql_query)} :
            \E passed \in {PassedToEngine(sql_query, st.role)} :
                \E outcome \in EngineOutcomes :
                  LET executed == engine_result(passed, outcome)
                      command == db_process(st, sql_query, access, executed.result,
                                            NeedsVisualization(st)
                                              \/ is_visualization_request(st.query),
                                            MSG_NO_DATA_2)
                      new_state == [StateUpdate(st, command.update)
                                      EXCEPT !.next_agent = command.goto]
                  IN  /\ Step("db_agent_2", new_state, route_after_db(new_state))
                      /\ verdict' = IF access.allowed THEN "allow" ELSE "deny"
                      /\ engine' = engine
                                     \cup (IF access.allowed /\ executed.engine
                                           THEN {[role |-> st.role, sql |-> sql_query]}
                                           ELSE {})
                      /\ failed' = failed
                                     \cup (IF gen.error THEN {"generator"} ELSE {})
                      /\ raised' = raised
       \/ LET command == db_process_error(MSG_DB2_AGENT_ERROR)
              new_state == [StateUpdate(st, command.update)
                              EXCEPT !.next_agent = command.goto]
          IN  /\ Step("db_agent_2", new_state, route_after_db(new_state))
              /\ raised' = raised \cup {"db_agent_2"}
              /\ UNCHANGED <<verdict, engine, failed>>
       \/ LET new_state == [st EXCEPT !.next_agent = "summarizer",
                                      !.response_message = MSG_DB2_NODE_ERROR]
          IN  /\ Step("db_agent_2", new_state, route_after_db(new_state))
              /\ raised' = raised \cup {"db_agent_2"}
              /\ UNCHANGED <<verdict, engine, failed>>
    /\ UNCHANGED <<call, ret, threads, turns, label, response, conversations>>

\* ChatbotWorkflow._visualizer_node with VisualizerAgent.create_visualization
\* (the agent answers, the agent's except branch, the node's except branch),
\* then the edge to the summarizer
VisualizerNode ==
    /\ node = "visualizer"
    /\ \/ LET command == create_visualization(st)
              new_state == [StateUpdate(st, command.update) EXCEPT !.next_agent = command.goto]
          IN  /\ Step("visualizer", new_state, edge("visualizer"))
              /\ raised' = raised
       \/ LET command == create_visualization_error
              new_state == [StateUpdate(st, command.update) EXCEPT !.next_agent = command.goto]
          IN  /\ Step("visualizer", new_state, edge("visualizer"))
              /\ raised' = raised \cup {"visualizer"}
       \/ LET new_state == [st EXCEPT !.next_agent = "summarizer",
                                      !.response_message = MSG_VISUALIZER_NODE_ERROR]
          IN  /\ Step("visualizer", new_state, edge("visualizer"))
              /\ raised' = raised \cup {"visualizer"}
    /\ UNCHANGED <<call, ret, threads, turns, label, verdict, engine, response, failed, conversations>>

\* ChatbotWorkflow._summarizer_node with SummarizerAgent.summarize (try
\* branch, except branch), then the edge to END; summarize adds the turn to
\* the history when the text generator answered
SummarizerNode ==
    /\ node = "summarizer"
    /\ \/ \E reply \in TextReplies :
            LET command == summarize(st, reply)
                new_state == [StateUpdate(st, command.update)
                                EXCEPT !.is_complete = TRUE, !.next_agent = "None"]
            IN  /\ Step("summarizer", new_state, edge("summarizer"))
                /\ conversations' =
                     IF reply.error THEN conversations
                     ELSE add_turn(conversations, st.user_id, st.query, reply.text,
                                   ResponseData(st))
                /\ failed' = IF reply.error THEN failed \cup {"summarizer"} ELSE failed
                /\ raised' = raised
       \/ LET new_state == [st EXCEPT !.is_complete = TRUE,
                                      !.response_message = MSG_SUMMARIZER_NODE_ERROR]
          IN  /\ Step("summarizer", new_state, edge("summarizer"))
              /\ raised' = raised \cup {"summarizer"}
              /\ UNCHANGED <<failed, conversations>>
    /\ UNCHANGED <<call, ret, threads, turns, label, verdict, engine, response>>

\* ChatbotWorkflow._unauthorized_node (try branch, except branch), then the
\* edge to END
UnauthorizedNode ==
    /\ node = "unauthorized"
    /\ \/ LET command == handle_unauthorized(st)
              new_state == [StateUpdate(st, command.update)
                              EXCEPT !.is_complete = TRUE, !.next_agent = "None"]
          IN  /\ Step("unauthorized", new_state, edge("unauthorized"))
              /\ raised' = raised
       \/ LET new_state == [st EXCEPT !.is_complete = TRUE,
                                      !.response_message = MSG_UNAUTHORIZED_NODE_ERROR]
          IN  /\ Step("unauthorized", new_state, edge("unauthorized"))
              /\ raised' = raised \cup {"unauthorized"}
    /\ UNCHANGED <<call, ret, threads, turns, label, verdict, engine, response, failed, conversations>>

\* process_query after the graph has ended, and app.chat's answer; the
\* turn's ChatState is dropped
Finish ==
    /\ node = "END"
    /\ response' = [status |-> 200,
                    message |-> final_message(st),
                    table |-> ~st.db_results.none,
                    chart |-> st.chart_spec,
                    history |-> get_history(conversations, st.user_id)]
    /\ EndTurn
    /\ UNCHANGED <<call, ret, threads, turns, conversations>>

\* process_query's except branch: building the state, running the graph or
\* reading the history raised
ProcessQueryError ==
    /\ node # "idle"
    /\ response' = [status |-> 200, message |-> MSG_WORKFLOW_ERROR,
                    table |-> FALSE, chart |-> FALSE, history |-> <<>>]
    /\ EndTurn
    /\ UNCHANGED <<call, ret, threads, turns, conversations>>

Next ==
    \/ Chat
    \/ RouterNode
    \/ ChitchatNode
    \/ DbAgent1Node
    \/ DbAgent2Node
    \/ VisualizerNode
    \/ SummarizerNode
    \/ UnauthorizedNode
    \/ Finish
    \/ ProcessQueryError

Spec == Init /\ [][Next]_vars

\* ------------------------------------------------------------------------
\* Direct calls to the history store, one at a time (SpecHistory)
\* ------------------------------------------------------------------------
HistoryUsers == {"u1", "u2"}

Q_users == <<"s","h","o","w"," ","m","e"," ","a","l","l"," ","u","s","e","r","s">>
Q_hello == <<"h","e","l","l","o",","," ","h","o","w"," ","a","r","e"," ","y","o","u">>
Q_chart == <<"s","h","o","w"," ","m","e"," ","a"," ","b","a","r"," ","c","h","a","r","t"," ","o","f"," ","s","a","l","e","s"," ","b","y"," ","m","o","n","t","h">>

HistoryQueries == {Q_users, Q_chart}

\* the limit argument of get_recent_history
Limits == {0, 2, 200}

\* data=None of add_turn
NoData ==
    [none |-> TRUE, table |-> FALSE, chart |-> FALSE, original_count |-> 0,
     key_topics |-> {}]

\* the query of the k-th turn of the user whose history exists at the start
PastQuery(k) ==
    IF k % SUMMARIZE_AT > SUMMARIZE_OLD THEN Q_chart
    ELSE IF k % 2 = 1 THEN Q_users ELSE Q_hello

\* the entries add_turn appended in the calls a..b of the user u1
PastTurns(a, b) ==
    [i \in 1..(b - a + 1) |->
        ConversationTurn(PastQuery(a + i - 1), "<generated text>", NoData)]

\* the store after k add_turn calls for the user u1, k below the second
\* consolidation: the call that appends the 100th entry consolidates, the
\* calls after it append
PastStore(k) ==
    IF k = 0 THEN NoConversations
    ELSE [u \in {"u1"} |->
            IF k < SUMMARIZE_AT THEN PastTurns(1, k)
            ELSE summarize_history(PastTurns(1, SUMMARIZE_AT))
                 \o PastTurns(SUMMARIZE_AT + 1, k)]

\* the numbers of past add_turn calls the store starts from: none, few,
\* just below the first consolidation, just below the second one
PastCalls == {0, 2, 98, 99, 177, 178}

NoHistoryCall == [kind |-> "history", n |-> 0, op |-> "none", user_id |-> "", twice |-> FALSE]

\* nothing has been returned: value is the returned list, live tells that it
\* is the very list object the store holds for user_id
NoHistoryReturn == [op |-> "none", user_id |-> "", value |-> <<>>, live |-> FALSE]

InitHistory ==
    /\ conversations \in {PastStore(k) : k \in PastCalls}
    /\ call = NoHistoryCall
    /\ ret = NoHistoryReturn
    /\ turns = 0
    /\ NoTurn
    /\ response = NoResponse
    /\ threads = NoThreads

HistoryCall(op, user_id) ==
    [kind |-> "history", n |-> call.n + 1, op |-> op, user_id |-> user_id,
     twice |-> call.op = op /\ call.user_id = user_id]

\* add_turn(user_id, user_query, ...): list.append changes the user's list
\* object in place, so a caller still holding that object sees the new
\* entry; a consolidation binds the user to a new list object
AddTurn ==
    /\ call.kind = "history" /\ call.n < MaxCalls
    /\ \E user_id \in HistoryUsers, user_query \in HistoryQueries :
         LET turn == ConversationTurn(user_query, "<generated text>", NoData)
             appended == Append(get_history(conversations, user_id), turn)
         IN  /\ conversations' = add_turn(conversations, user_id, user_query,
                                          "<generated text>", NoData)
             /\ call' = HistoryCall("add_turn", user_id)
             /\ ret' = IF ret.live /\ ret.user_id = user_id
                       THEN [ret EXCEPT !.value = appended,
                                        !.live = Len(appended) < SUMMARIZE_AT]
                       ELSE ret
    /\ UNCHANGED <<turns, node, st, ran, label, verdict, engine, response, failed,
                   raised, threads>>

\* get_history(user_id) returns the user's list object itself, or a new
\* empty list for an unknown user
GetHistory ==
    /\ call.kind = "history" /\ call.n < MaxCalls
    /\ \E user_id \in HistoryUsers :
         /\ call' = HistoryCall("get_history", user_id)
         /\ ret' = [op |-> "get_history", user_id |-> user_id,
                    value |-> get_history(conversations, user_id),
                    live |-> user_id \in DOMAIN conversations]
    /\ UNCHANGED <<wfvars>>

\* get_recent_history(user_id, limit) returns a new list
GetRecentHistory ==
    /\ call.kind = "history" /\ call.n < MaxCalls
    /\ \E user_id \in HistoryUsers, limit \in Limits :
         /\ call' = [HistoryCall("get_recent_history", user_id) EXCEPT !.twice = FALSE]
         /\ ret' = [op |-> "get_recent_history", user_id |-> user_id, limit |-> limit,
                    value |-> get_recent_history(conversations, user_id, limit),
                    live |-> FALSE]
    /\ UNCHANGED <<wfvars>>

\* clear_history(user_id): del removes the user's key; a list returned
\* earlier is no longer the store's
ClearHistory ==
    /\ call.kind = "history" /\ call.n < MaxCalls
    /\ \E user_id \in HistoryUsers :
         /\ conversations' = clear_history(conversations, user_id)
         /\ call' = HistoryCall("clear_history", user_id)
         /\ ret' = IF ret.live /\ ret.user_id = user_id
                   THEN [ret EXCEPT !.live = FALSE] ELSE ret
    /\ UNCHANGED <<turns, node, st, ran, label, verdict, engine, response, failed,
                   raised, threads>>

NextHistory ==
    \/ AddTurn
    \/ GetHistory
    \/ GetRecentHistory
    \/ ClearHistory

SpecHistory == InitHistory /\ [][NextHistory]_vars

\* ------------------------------------------------------------------------
\* add_turn run by several threads for the same user (SpecThreads)
\* ------------------------------------------------------------------------
Threads == 1..MaxThreads

\* the query of the turn thread t adds
ThreadQuery(t) == <<"t">> \o str_int(t)

\* numbers of past add_turn calls around the first consolidation
ThreadPastCalls == {0, 98, 99}

ThreadStart == [pc |-> "check_user", old |-> <<>>, recent |-> <<>>]

InitThreads ==
    /\ conversations \in {PastStore(k) : k \in ThreadPastCalls}
    /\ threads = [t \in Threads |-> ThreadStart]
    /\ call = NoCall
    /\ ret = NoReturn
    /\ turns = 0
    /\ NoTurn
    /\ response = NoResponse

\* the variables add_turn does not touch
othervars == <<call, ret, turns, node, st, ran, label, verdict, engine, response,
               failed, raised>>

Goto(t, pc) == threads' = [threads EXCEPT ![t].pc = pc]

\* add_turn: if user_id not in self.conversations
CheckUser(t) ==
    /\ threads[t].pc = "check_user"
    /\ Goto(t, IF "u1" \in DOMAIN conversations THEN "append" ELSE "create")
    /\ UNCHANGED conversations
    /\ UNCHANGED othervars

\* add_turn: self.conversations[user_id] = []
CreateList(t) ==
    /\ threads[t].pc = "create"
    /\ conversations' = [u \in DOMAIN conversations \cup {"u1"} |->
                            IF u = "u1" THEN <<>> ELSE conversations[u]]
    /\ Goto(t, "append")
    /\ UNCHANGED othervars

\* add_turn: self.conversations[user_id].append(turn.model_dump())
AppendTurn(t) ==
    /\ threads[t].pc = "append"
    /\ conversations' = [conversations EXCEPT
                            !["u1"] = Append(@, ConversationTurn(ThreadQuery(t),
                                                                 "<generated text>", NoData))]
    /\ Goto(t, "check_len")
    /\ UNCHANGED othervars

\* add_turn: if len(self.conversations[user_id]) >= 100
CheckLen(t) ==
    /\ threads[t].pc = "check_len"
    /\ Goto(t, IF Len(conversations["u1"]) >= SUMMARIZE_AT THEN "check_again" ELSE "done")
    /\ UNCHANGED conversations
    /\ UNCHANGED othervars

\* _summarize_history: return when the user is unknown or has fewer than
\* 100 entries
CheckAgain(t) ==
    /\ threads[t].pc = "check_again"
    /\ Goto(t, IF "u1" \notin DOMAIN conversations \/ Len(conversations["u1"]) < SUMMARIZE_AT
               THEN "done" ELSE "read_old")
    /\ UNCHANGED conversations
    /\ UNCHANGED othervars

\* _summarize_history: old_conversations = self.conversations[user_id][:80]
ReadOld(t) ==
    /\ threads[t].pc = "read_old"
    /\ threads' = [threads EXCEPT
                     ![t].pc = "read_recent",
                     ![t].old = SubSeq(conversations["u1"], 1,
                                       IF Len(conversations["u1"]) < SUMMARIZE_OLD
                                       THEN Len(conversations["u1"]) ELSE SUMMARIZE_OLD)]
    /\ UNCHANGED conversations
    /\ UNCHANGED othervars

\* _summarize_history: recent_conversations = self.conversations[user_id][80:]
ReadRecent(t) ==
    /\ threads[t].pc = "read_recent"
    /\ threads' = [threads EXCEPT
                     ![t].pc = "assign",
                     ![t].recent = SubSeq(conversations["u1"], SUMMARIZE_OLD + 1,
                                          Len(conversations["u1"]))]
    /\ UNCHANGED conversations
    /\ UNCHANGED othervars

\* _summarize_history: self.conversations[user_id] = [summary] + recent
AssignSummary(t) ==
    /\ threads[t].pc = "assign"
    /\ conversations' = [u \in DOMAIN conversations \cup {"u1"} |->
                            IF u = "u1"
                            THEN <<create_conversation_summary(threads[t].old)>>
                                 \o threads[t].recent
                            ELSE conversations[u]]
    /\ threads' = [threads EXCEPT ![t] = [ThreadStart EXCEPT !.pc = "done"]]
    /\ UNCHANGED othervars

NextThreads ==
    \/ \E t \in Threads : CheckUser(t)
    \/ \E t \in Threads : CreateList(t)
    \/ \E t \in Threads : AppendTurn(t)
    \/ \E t \in Threads : CheckLen(t)
    \/ \E t \in Threads : CheckAgain(t)
    \/ \E t \in Threads : ReadOld(t)
    \/ \E t \in Threads : ReadRecent(t)
    \/ \E t \in Threads : AssignSummary(t)

SpecThreads == InitThreads /\ [][NextThreads]_vars

\* ------------------------------------------------------------------------
\* Properties of the access validator and the executor (SpecRBAC)
\* ------------------------------------------------------------------------
\* the role string names a role other than admin, in any letter case
NonAdminRole(role) == lower(role) \in Role \ {ADMIN}

\* the upper-cased text holds a denylisted keyword
HasDenylistedKeyword(text) ==
    \E k \in 1..Len(dangerous_keywords) : contains(upper(text), dangerous_keywords[k])

\* the tables a statement names after FROM and JOIN, read off its clauses:
\* the FROM target when it is a bare name, then the JOIN targets, lower-cased
ClauseTables(stmt) ==
    (IF stmt.from # <<>> /\ WordChar(stmt.from[1]) THEN <<lower(stmt.from)>> ELSE <<>>)
    \o [i \in 1..Len(stmt.joins) |-> lower(stmt.joins[i])]

Validated == call.kind = "sql" /\ ret.op = "validate_query_access"

\* C2: a non-admin role and a statement whose upper-cased text contains a
\* denylisted keyword are always denied, whatever tables the statement names
C2_DenylistDenies ==
    (Validated /\ NonAdminRole(call.role) /\ HasDenylistedKeyword(Render(call.stmt)))
        => ret.value.allowed = FALSE

\* C2 witness: viewer, only permitted tables, a denylisted keyword, denied
C2_Witness ==
    /\ Validated
    /\ call.role = VIEWER
    /\ call.stmt.head = KW_SELECT
    /\ call.stmt.from = T_users
    /\ call.stmt.joins = <<T_orders>>
    /\ call.stmt.tail = dangerous_keywords[10]
    /\ call.stmt.lc
    /\ ret.value.allowed = FALSE
    /\ ret.value.reason = "Query contains unauthorized operations"

\* C3: a role string outside the enumeration is denied by every operation of
\* the policy store and the validator
C3_UnknownRoleFailsClosed ==
    (lower(call.role) \notin Role) =>
        /\ ret.op = "validate_query_access" => ret.value.allowed = FALSE
        /\ ret.op = "has_permission" => ret.value = FALSE
        /\ ret.op = "can_access_table" => ret.value = FALSE
        /\ ret.op = "can_access_column" => ret.value = FALSE
        /\ ret.op = "get_role_info" => ret.value.found = FALSE

\* C3 witness: the unknown role asked for a column every restricted role may read
C3_Witness ==
    /\ call.kind = "policy"
    /\ call.role = <<"g","u","e","s","t">>
    /\ call.table = T_users
    /\ call.column = C_id
    /\ ret.op = "can_access_column"
    /\ ret.value = FALSE

\* C4: when a named table is outside the role's permitted set, the verdict is
\* Deny and the reason names the first such table, FROM targets before JOIN
\* targets, even when the statement is also unsafe
C4_FirstDeniedTableNamed ==
    (Validated /\ NonAdminRole(call.role)) =>
        LET tables == ClauseTables(call.stmt)
            bad == {i \in 1..Len(tables) : tables[i] \notin table_permissions(lower(call.role))}
        IN  bad # {} =>
              /\ ret.value.allowed = FALSE
              /\ ret.value.reason = "Access denied to table"
              /\ ret.value.table = tables[Min(bad)]

\* C4 witness: two forbidden tables and a denylisted keyword; the FROM table is named
C4_Witness ==
    /\ Validated
    /\ call.role = VIEWER
    /\ call.stmt.from = <<"P","r","o","d","u","c","t","s">>
    /\ call.stmt.joins = <<T_secrets>>
    /\ call.stmt.tail = dangerous_keywords[1]
    /\ ret.value.allowed = FALSE
    /\ ret.value.table = T_products

\* C5 (as claimed): a non-admin role is denied when no table can be extracted
C5_NoTablesDenied ==
    (Validated /\ NonAdminRole(call.role) /\ extract_tables_from_sql(Render(call.stmt)) = <<>>)
        => ret.value.allowed = FALSE

\* C6 (as claimed): viewer is never allowed a statement selecting a column of
\* users outside {id, name, email}
C6_ViewerColumnsEnforced ==
    (Validated /\ lower(call.role) = VIEWER
       /\ call.stmt.from = T_users /\ call.stmt.col \in {C_password, C_created_at})
        => ret.value.allowed = FALSE

\* C7: admin is allowed every statement; another role is allowed every
\* SELECT without denylisted keyword whose named tables are all permitted
C7_AllowWhenAllChecksPass ==
    Validated =>
        /\ lower(call.role) = ADMIN => ret.value.allowed = TRUE
        /\ (/\ NonAdminRole(call.role)
            /\ call.stmt.head = KW_SELECT
            /\ ~HasDenylistedKeyword(Render(call.stmt))
            /\ \A t \in Range(ClauseTables(call.stmt)) : t \in table_permissions(lower(call.role)))
           => ret.value.allowed = TRUE

\* C7 witness: a role in upper case, keywords in lower case after a blank,
\* a table name in mixed case; allowed
C7_Witness ==
    /\ Validated
    /\ call.role = <<"V","I","E","W","E","R">>
    /\ call.stmt.head = KW_SELECT /\ call.stmt.lc
    /\ call.stmt.col = <<"*">>
    /\ call.stmt.from = T_users
    /\ call.stmt.joins = <<T_orders>>
    /\ call.stmt.tail = <<>>
    /\ ret.value.allowed = TRUE

\* C8: the executor hands a statement to the engine only if it starts with
\* SELECT and holds no denylisted keyword, for every role, and returns no
\* result otherwise
C8_ExecutorReadOnly ==
    (call.kind = "sql" /\ ret.op = "execute_query") =>
        LET readonly == call.stmt.head = KW_SELECT /\ ~HasDenylistedKeyword(Render(call.stmt))
        IN  /\ ret.value.engine => readonly
            /\ ~readonly => ret.value.result.none

\* C8 witness: admin, whom the validator lets bypass the denylist, is refused
\* a DELETE by the executor
C8_Witness ==
    /\ call.kind = "sql" /\ ret.op = "execute_query"
    /\ call.role = ADMIN
    /\ call.stmt.head = KW_DELETE
    /\ validate_query_access(call.role, Render(call.stmt)).allowed
    /\ ~ret.value.engine
    /\ ret.value.result.none

\* ------------------------------------------------------------------------
\* Properties of the workflow graph (Spec)
\* ------------------------------------------------------------------------
\* the access validator allowed the turn's statement and the executor
\* returned a result
DataRetrieved == verdict = "allow" /\ ~st.db_results.none

\* the turn asks for a chart: context flag, or keyword in the query text
VisualizationRequested == NeedsVisualization(st) \/ is_visualization_request(st.query)

\* the classifier's reply of the turn normalises to the label visualize
LabelIsVisualize == ~label.error /\ lower(strip(label.content)) = L_visualize

\* C1 (as claimed): after a Deny from the access validator the next stage is
\* unauthorized, and neither the visualizer nor the summarizer runs in the turn
C1_DenyGoesToUnauthorized ==
    verdict = "deny" =>
        /\ Len(ran) = 2 => node = "unauthorized"
        /\ "visualizer" \notin Range(ran)
        /\ "summarizer" \notin Range(ran)

\* C9: with an allowed statement and a retrieved result, the stage after the
\* data responder is the visualizer, followed by the summarizer, when the
\* context flag is set or the query holds a visualization keyword, and the
\* summarizer otherwise; a turn that produced a chart answers with both table
\* and chart
C9_VisualizerBetween ==
    /\ (DataRetrieved /\ Len(ran) >= 2) =>
          /\ ran[2] \in {"db_agent_1", "db_agent_2"}
          /\ IF VisualizationRequested
             THEN /\ Len(ran) = 2 => node = "visualizer"
                  /\ Len(ran) >= 3 => ran[3] = "visualizer"
                  /\ Len(ran) = 3 => node = "summarizer"
                  /\ Len(ran) >= 4 => ran[4] = "summarizer"
             ELSE /\ Len(ran) = 2 => node = "summarizer"
                  /\ Len(ran) >= 3 => ran[3] = "summarizer"
    /\ response.chart => response.table

\* C9 witness: no context flag, a keyword in the query; the turn went through
\* the visualizer and ends with table and chart
C9_Witness ==
    /\ node = "END"
    /\ ~st.db_results.none /\ st.chart_spec
    /\ verdict = "allow"
    /\ ~NeedsVisualization(st)
    /\ is_visualization_request(st.query)
    /\ ran = <<"router", "db_agent_1", "visualizer", "summarizer">>

\* C10 (as claimed): once the router has run on the label visualize, the
\* context holds needs_visualization = true, and the stage after the data
\* responder is the visualizer
C10_RouterLeavesFlag ==
    (LabelIsVisualize /\ Len(ran) >= 1) =>
        /\ NeedsVisualization(st)
        /\ (DataRetrieved /\ Len(ran) = 2) => node = "visualizer"

\* the stages that lead to END
TerminalStages == {"summarizer", "unauthorized", "chitchat"}

\* the classifier answered in the turn, and its label as the router reads it
Labelled == Len(ran) >= 1 /\ ~label.error

Intent == lower(strip(label.content))

\* C11: the stage after the router is the one the fixed table gives for the
\* classifier's label (chitchat for a label outside the table), and is always
\* one of chitchat, db_agent_1, db_agent_2, unauthorized
C11_RouterUsesTable ==
    Len(ran) >= 1 =>
        LET after == IF Len(ran) = 1 THEN node ELSE ran[2]
        IN  /\ ran[1] = "router"
            /\ after \in {"chitchat", "db_agent_1", "db_agent_2", "unauthorized"}
            /\ Labelled =>
                  after = CASE Intent = L_chitchat     -> "chitchat"
                            [] Intent = L_db1          -> "db_agent_1"
                            [] Intent = L_db2          -> "db_agent_2"
                            [] Intent = L_visualize    -> "db_agent_2"
                            [] Intent = L_unauthorized -> "unauthorized"
                            [] OTHER                   -> "chitchat"

\* C11 witness: the label visualize, capitalised and padded, led to db_agent_2
C11_Witness ==
    /\ ran = <<"router">>
    /\ label = Reply(<<"V","i","s","u","a","l","i","z","e"," ">>)
    /\ node = "db_agent_2"

\* C12: with a casual or unknown label the turn runs router, chitchat and
\* ends: no statement is generated, the access validator is not consulted,
\* the summarizer does not run and nothing reaches the engine
C12_CasualTurnOnlyChats ==
    (Labelled /\ Intent \notin {L_db1, L_db2, L_visualize, L_unauthorized}) =>
        /\ Len(ran) = 1 => node = "chitchat"
        /\ Len(ran) >= 2 => (ran = <<"router", "chitchat">> /\ node = "END")
        /\ st.sql_query = <<>>
        /\ "generator" \notin failed
        /\ verdict = "none"
        /\ engine = {}

\* C12 witness: a label outside the vocabulary; the turn ended after chitchat
C12_Witness ==
    /\ label = Reply(<<"w","e","a","t","h","e","r">>)
    /\ ran = <<"router", "chitchat">>
    /\ node = "END"
    /\ st.is_complete
    /\ engine = {}

\* the messages a stage or process_query sets when it gives up
ApologyMessages ==
    {MSG_DB2_AGENT_ERROR, MSG_DB2_NODE_ERROR, MSG_SUMMARY_ERROR,
     MSG_SUMMARIZER_NODE_ERROR, MSG_WORKFLOW_ERROR}

\* C13 (as claimed): when the statement generator fails in the complex
\* responder, nothing reaches the engine, and the turn ends complete with an
\* apology as its message
C13_GeneratorFailureApologises ==
    ("generator" \in failed /\ Len(ran) >= 2 /\ ran[2] = "db_agent_2") =>
        /\ engine = {}
        /\ node = "END" => (st.is_complete /\ final_message(st) \in ApologyMessages)

\* C14 (as claimed): after a data responder or the visualizer raised, the
\* next stage is the summarizer; after the router or the unauthorized stage
\* raised, the turn is complete with the denial message and no responder runs
C14_FailureRouting ==
    /\ \A i \in 1..Len(ran) :
         (ran[i] \in {"db_agent_1", "db_agent_2", "visualizer"} /\ ran[i] \in raised) =>
             /\ Len(ran) = i => node = "summarizer"
             /\ Len(ran) > i => ran[i + 1] = "summarizer"
    /\ ("router" \in raised /\ Len(ran) >= 1) =>
         /\ ran = <<"router">>
         /\ node = "END"
         /\ st.is_complete
         /\ st.response_message = MSG_UNAUTHORIZED_NODE_ERROR
    /\ "unauthorized" \in raised =>
         /\ ran[Len(ran)] = "unauthorized"
         /\ node = "END"
         /\ st.is_complete
         /\ st.response_message = MSG_UNAUTHORIZED_NODE_ERROR

\* C15: a turn executes at most four stages, none of them twice, and END is
\* entered only from the summarizer, the unauthorized stage or chitchat
C15_TurnIsAcyclic ==
    /\ Len(ran) <= 4
    /\ \A i, j \in 1..Len(ran) : i # j => ran[i] # ran[j]
    /\ node \in {"router", "chitchat", "db_agent_1", "db_agent_2", "visualizer",
                 "summarizer", "unauthorized"} => node \notin Range(ran)
    /\ node = "END" => (Len(ran) >= 1 /\ ran[Len(ran)] \in TerminalStages)

\* C15 witness: a turn of four stages at END, with a denied statement and a
\* failed summarizer
C15_Witness ==
    /\ node = "END"
    /\ ran = <<"router", "db_agent_2", "visualizer", "summarizer">>
    /\ verdict = "deny"
    /\ "summarizer" \in failed

\* C16 (as claimed): is_complete is true only when a terminal stage has run,
\* and then no further stage runs
C16_CompleteOnlyAtTerminal ==
    st.is_complete =>
        /\ ran[Len(ran)] \in TerminalStages
        /\ node = "END"

\* C17 (as claimed): response_message is written once in a turn, by a
\* terminal stage: a step of the turn that changes it starts from the unset
\* message and is a step of the summarizer, the unauthorized stage or chitchat
C17_MessageWrittenOnce ==
    [][(node' # "idle" /\ st'.response_message # st.response_message) =>
          /\ st.response_message = ""
          /\ node \in TerminalStages]_vars

\* C18: process_query answers a record with a non-empty message, a payload
\* with at most the keys table and chart, and a list as history
C18_WellFormedResponse ==
    response.status = 200 =>
        /\ response.message # ""
        /\ response.table \in BOOLEAN /\ response.chart \in BOOLEAN
        /\ DOMAIN response.history = 1..Len(response.history)

\* C18 witness: the text generator of the summarizer answered an empty text
\* and the caller received the default message
C18_Witness ==
    /\ node = "idle"
    /\ response.status = 200
    /\ response.message = MSG_DEFAULT
    /\ response.history # <<>>
    /\ response.history[Len(response.history)].assistant_response = ""

\* the request passes the checks of the /chat endpoint
ValidRequest(state) ==
    /\ state.user_id # ""
    /\ state.query # <<>>
    /\ state.role \in {<<"a","n","a","l","y","s","t">>, <<"a","d","m","i","n">>,
                       <<"r","e","a","d","o","n","l","y">>, <<"v","i","e","w","e","r">>}

\* C19: a request starts the workflow only with a non-empty user_id and
\* query and one of the four roles; otherwise it is answered 400, no stage
\* runs, nothing reaches the engine and the history store is unchanged
C19_BadRequestRejected ==
    [][turns' = turns + 1 =>
          IF ValidRequest(st')
          THEN node' = "router"
          ELSE /\ response'.status = 400
               /\ node' = "idle" /\ ran' = <<>>
               /\ verdict' = "none" /\ engine' = {}
               /\ conversations' = conversations]_vars

\* C19 witness: a request was answered 400 and no turn runs
C19_Witness ==
    /\ turns >= 1
    /\ response.status = 400
    /\ node = "idle" /\ ran = <<>> /\ engine = {}

\* C20 (as claimed): the stage that ends a turn appends one entry holding
\* the turn's query and response message to the user's history
C20_TurnRecorded ==
    [][(node \in TerminalStages /\ node' = "END") =>
          LET before == get_history(conversations, st.user_id)
              after == get_history(conversations', st.user_id)
          IN  /\ Len(after) = Len(before) + 1
              /\ SubSeq(after, 1, Len(before)) = before
              /\ after[Len(after)].user_query = st.query
              /\ after[Len(after)].assistant_response = st'.response_message]_vars

\* ------------------------------------------------------------------------
\* Properties of the history store (SpecHistory, SpecThreads)
\* ------------------------------------------------------------------------
IsSummary(entry) == entry.kind = "summary"

\* at most one summary entry, and only as the first entry
SummaryOnlyFirst(history) == \A i \in 1..Len(history) : IsSummary(history[i]) => i = 1

\* exactly one summary entry, the first
OneSummaryFirst(history) ==
    /\ history # <<>>
    /\ IsSummary(history[1])
    /\ SummaryOnlyFirst(history)

\* C21: when add_turn has returned a user's history holds fewer than 100
\* entries and a summary entry only as its first entry; the add_turn call
\* that reaches 100 entries, and every add_turn call on a history that
\* starts with a summary entry, leaves exactly one summary entry, the first
C21_BoundedOneSummaryFirst ==
    [][call'.op = "add_turn" =>
          LET before == get_history(conversations, call'.user_id)
              after == get_history(conversations', call'.user_id)
          IN  /\ Len(after) < SUMMARIZE_AT
              /\ SummaryOnlyFirst(after)
              /\ (Len(before) + 1 >= SUMMARIZE_AT \/ OneSummaryFirst(before))
                    => OneSummaryFirst(after)]_vars

\* C21 witness: the second consolidation of u1 has run; its summary entry
\* covers the chart queries that the first consolidation had kept
C21_Witness ==
    /\ call.kind = "history" /\ call.op = "add_turn" /\ call.user_id = "u1"
    /\ "u1" \in DOMAIN conversations
    /\ Len(conversations["u1"]) = SUMMARIZE_AT - SUMMARIZE_OLD + 1
    /\ OneSummaryFirst(conversations["u1"])
    /\ "data visualization" \in conversations["u1"][1].data.key_topics

\* C22: the add_turn call that brings the length to 100 leaves 21 entries:
\* one summary entry with original_count = 80 and the topics matched by the
\* 80 oldest queries, then the newest 20 entries unchanged and in order;
\* below 100 add_turn appends one entry and changes no other; the
\* histories of other users are untouched
C22_ConsolidationKeepsRecent ==
    [][call'.op = "add_turn" =>
          LET before == get_history(conversations, call'.user_id)
              after == get_history(conversations', call'.user_id)
              n == Len(before)
          IN  /\ \A u \in DOMAIN conversations \ {call'.user_id} :
                    u \in DOMAIN conversations' /\ conversations'[u] = conversations[u]
              /\ after # <<>> /\ after[Len(after)].kind = "turn"
              /\ IF n + 1 < 100
                 THEN /\ Len(after) = n + 1
                      /\ SubSeq(after, 1, n) = before
                 ELSE /\ Len(after) = 21
                      /\ IsSummary(after[1])
                      /\ after[1].data.original_count = 80
                      /\ after[1].data.key_topics =
                           {topic_keywords[t].topic : t \in
                              {t \in 1..Len(topic_keywords) :
                                 \E i \in 1..80 : \E w \in topic_keywords[t].words :
                                    contains(lower(before[i].user_query), w)}}
                      /\ Cardinality(after[1].data.key_topics) <= 5
                      /\ \A i \in 1..19 : after[1 + i] = before[80 + i]]_vars

\* C22 witness: the first consolidation of u1 has run on queries about
\* users and greetings
C22_Witness ==
    /\ call.kind = "history" /\ call.op = "add_turn" /\ call.user_id = "u1"
    /\ "u1" \in DOMAIN conversations
    /\ Len(conversations["u1"]) = 21
    /\ IsSummary(conversations["u1"][1])
    /\ conversations["u1"][1].data.key_topics = {"database queries", "personal interaction"}
    /\ conversations["u1"][2].user_query = Q_chart
    /\ conversations["u1"][21].user_query \in HistoryQueries

\* C23 (as claimed): get_recent_history(user, limit) returns the last
\* min(limit, n) entries of the user's history
C23_RecentIsTail ==
    [][call'.op = "get_recent_history" =>
          LET history == get_history(conversations, ret'.user_id)
              n == Len(history)
              m == IF ret'.limit < n THEN ret'.limit ELSE n
          IN  /\ ret'.value = SubSeq(history, n - m + 1, n)
              /\ Len(ret'.value) <= ret'.limit]_vars

\* C24: after clear_history the user's history reads as empty and the user
\* is not among get_all_users, whether or not the user had a history; the
\* other users keep theirs; a second call in a row changes nothing
C24_ClearIdempotent ==
    [][call'.op = "clear_history" =>
          /\ call'.user_id \notin get_all_users(conversations')
          /\ get_history(conversations', call'.user_id) = <<>>
          /\ \A u \in DOMAIN conversations \ {call'.user_id} :
                u \in DOMAIN conversations' /\ conversations'[u] = conversations[u]
          /\ call'.twice => conversations' = conversations]_vars

\* C24 witness: clear_history ran twice in a row for u1, after an add_turn
\* for the other user
C24_Witness ==
    /\ call.kind = "history" /\ call.op = "clear_history" /\ call.twice
    /\ call.user_id = "u1"
    /\ DOMAIN conversations = {"u2"}

\* every thread has returned from add_turn
AllDone == threads # NoThreads /\ \A t \in DOMAIN threads : threads[t].pc = "done"

\* C25 (as claimed): when the threads have returned, the entry of each
\* thread is in the history, and the history has at most one summary entry,
\* which is first
C25_AppendsSerialized ==
    AllDone =>
        LET history == get_history(conversations, "u1")
        IN  /\ \A t \in DOMAIN threads :
                 \E i \in 1..Len(history) : history[i].user_query = ThreadQuery(t)
            /\ SummaryOnlyFirst(history)

\* C26 (as claimed): a list returned by get_history or get_recent_history
\* keeps its contents while later calls change the store
C26_ReturnedIsSnapshot ==
    [][(ret.op \in {"get_history", "get_recent_history"}
          /\ call'.op \in {"add_turn", "clear_history"})
         => ret'.value = ret.value]_vars

\* ------------------------------------------------------------------------
\* Properties of the turn's answer and of its data-store calls (Spec)
\* ------------------------------------------------------------------------
\* the reasons validate_query_access gives with a Deny
DenyReasons ==
    {"Invalid role", "Query contains unauthorized operations", "Access denied to table"}

\* the fields of a stored entry's data and of the answer
EntryOnlyFromAnswer(e) ==
    /\ e.assistant_response \notin DenyReasons
    /\ e.user_query \in Queries
    /\ st.sql_query # <<>> => e.user_query # st.sql_query
    /\ DOMAIN e.data = {"none", "table", "chart", "original_count", "key_topics"}

\* C27: the answer (message, data, history) and the stored entries hold the
\* turn's message, result and chart only: no deny reason of the validator
\* and no generated statement is copied into them
C27_NoInternalDetail ==
    /\ DOMAIN response = {"status", "message", "table", "chart", "history"}
    /\ response.message \notin DenyReasons
    /\ node = "END" => final_message(st) \notin DenyReasons
    /\ \A i \in 1..Len(response.history) : EntryOnlyFromAnswer(response.history[i])
    /\ \A u \in DOMAIN conversations :
          \A i \in 1..Len(conversations[u]) : EntryOnlyFromAnswer(conversations[u][i])

\* a turn whose access check denied has ended with a composed message and
\* its entry is stored
C27_Witness ==
    /\ node = "END"
    /\ verdict = "deny"
    /\ st.user_id = "u1"
    /\ "u1" \in DOMAIN conversations
    /\ Len(conversations["u1"]) > 0
    /\ st.response_message = conversations["u1"][Len(conversations["u1"])].assistant_response

\* C29 (as claimed): for a role outside the four roles is_authorized(role,
\* "SELECT") is false and execute_query returns no result without handing
\* the statement to the engine
C29_ExecutorDeniesUnknownRole ==
    call.kind \in {"db", "sql"} /\ call.role \notin valid_roles =>
        /\ (ret.op = "is_authorized" /\ call.operation = "SELECT") => ~ret.value
        /\ ret.op = "execute_query" => ~ret.value.engine /\ ret.value.result.none

\* C30 (as claimed): for a role authorized to read, /tables and /schema
\* answer with data whenever the engine answers, and answer 403 only to a
\* role that is not authorized
C30_AuthorizedRoleReadsCatalogue ==
    (call.kind = "db" /\ ret.op \in {"get_available_tables", "get_table_schema"}) =>
        (ret.value.status = 403 => ~is_authorized(call.role, "SELECT"))

\* C28 (as claimed): every statement handed to the engine in a turn was
\* passed to execute_query with the turn's role, after the access validator
\* allowed that statement for that role
C28_ExecutedWasValidated ==
    \A e \in engine :
        /\ e.role = st.role
        /\ verdict = "allow"
        /\ validate_query_access(st.role, e.sql).allowed

====
